---- MODULE Spec2Model ----
(***************************************************************************)
(* Model of the orchestration core of stt-e2e-insights:                    *)
(*   - AsyncTaskManager.run_tasks   (src/src/utils/async_helpers.py)       *)
(*   - async_retry                  (src/src/utils/async_helpers.py)       *)
(*   - CCAIUploader.ingest_conversations_from_gcs and its helpers          *)
(*     _start_ingestion_with_retry and _monitor_ingestion_operation        *)
(*                                  (src/src/modules/ccai_uploader.py)     *)
(*   - AsyncBatch.process_items     (src/src/utils/async_helpers.py)       *)
(*   - STTInsightsPipeline.run_pipeline and the per-file stages            *)
(*                                  (src/src/main.py)                      *)
(* Each component has its own specification over the shared variables; the *)
(* variables of the other components stay in their initial state.          *)
(***************************************************************************)
EXTENDS Integers, Sequences, FiniteSets, TLC

(***************************************************************************)
(* Bounds of the model.                                                    *)
(***************************************************************************)
MaxTasks == 3
MaxConcurrent == 2
MaxAttempts == 3
\* the largest count written into a duplicate-skip error text
MaxCount == 11
\* the largest value of a counter of the operation metadata
MaxCounter == 4
\* durations are counted in ticks; a second has TicksPerSecond ticks
TicksPerSecond == 2
\* the longest list given to AsyncBatch.process_items
MaxItems == 4
\* the largest batch_size of an AsyncBatch
MaxBatchSize == 3
\* the largest number of audio files a run discovers
MaxFiles == 5
\* the largest number of coroutines one of the concurrent run_tasks calls
\* on a shared manager is given
MaxCallTasks == 2
\* the largest number of upload_conversation calls of one behaviour
MaxUploads == 2
\* the largest number of files discovered by a run of a pipeline object
\* that is run several times
MaxRerunFiles == 1
\* the latest clock reading, in seconds, a run writes into its statistics
MaxSeconds == 2

VARIABLES
    \* ---- AsyncTaskManager ------------------------------------------------
    max_concurrent_tasks,   \* self.max_concurrent_tasks
    semaphore,              \* self.semaphore: the number of free permits
    waiters,                \* self.semaphore: FIFO queue of blocked acquirers
    spc,                    \* position of the run_tasks call
    tstate,                 \* per wrapped task: position of _run_with_semaphore
    results,                \* per wrapped task: what gather collected for it
    successful_results,     \* run_tasks local, and its return value
    failed_tasks,           \* run_tasks local
    done_order,             \* the wrapped tasks in the order they ended
    \* ---- async_retry ------------------------------------------------------
    max_attempts,           \* decorator argument
    delay_seconds,          \* decorator argument, in ticks
    rpc,                    \* position of one call of the decorated function
    attempt_number,         \* the retry state's attempt number
    calls,                  \* invocations of the wrapped function so far
    failures,               \* invocations that raised
    waits,                  \* the backoff sleeps performed, in order, in ticks
    last_error,             \* the error of the latest failed invocation
    return_value,           \* what the call returned to its caller
    raised,                 \* what the call raised to its caller
    \* ---- CCAIUploader.ingest_conversations_from_gcs -----------------------
    ipc,                    \* position of one ingest_conversations_from_gcs call
    bucket_uri,             \* the bucket_uri local, as text
    attempt,                \* loop variable of _start_ingestion_with_retry
    submissions,            \* calls of client.ingest_conversations so far
    submit_delays,          \* the quota backoff sleeps performed, in seconds
    caught,                 \* the error an except clause of the call caught
    operation,              \* the long-running operation: state and metadata
    ingest_result,          \* the dict returned to the caller
    submit_error,           \* the error the latest failed submission raised
    result_waits,           \* calls of operation.result(timeout=900) so far
    \* ---- AsyncBatch.process_items ----------------------------------------
    batch_size,             \* self.batch_size
    max_concurrent_batches, \* the argument given to AsyncTaskManager
    batch_semaphore,        \* self.task_manager.semaphore: free permits
    bpc,                    \* position of the process_items call
    items,                  \* the items argument
    batches,                \* the batches local
    bstate,                 \* per batch: position of its wrapped _process_batch
    istate,                 \* per item: position of processor(item)
    item_results,           \* per item: what gather collected for it
    batch_results,          \* per batch: the list _process_batch returned
    all_results,            \* the list process_items returns
    \* ---- STTInsightsPipeline.run_pipeline --------------------------------
    ppc,                    \* position of the run_pipeline call
    mode,                   \* the mode local of run_pipeline
    audio_files,            \* the discovered blob names
    file_index,             \* manual mode: position of the loop over audio_files
    file_result,            \* the file_result dict of _process_single_file
    file_results,           \* the results list of _process_files_batch
    run_results,            \* the dict the processing step returns
    processing_stats,       \* self.processing_stats
    summary,                \* the dict run_pipeline returns
    exit_code,              \* what main returns
    \* ---- one AsyncTaskManager shared by concurrent run_tasks calls -------
    mgr_max_concurrent_tasks, \* self.max_concurrent_tasks
    mgr_semaphore,          \* self.semaphore: the number of free permits
    mgr_waiters,            \* self.semaphore: FIFO queue of <<call, task>>
    call_pc,                \* per caller: position of its run_tasks call
    call_tstate,            \* per caller, per wrapped task: its position
    \* ---- CCAIUploader.upload_conversation --------------------------------
    conversation_data,      \* the argument of the call in progress
    upload_calls,           \* calls of the decorated upload_conversation so far
    create_requests,        \* the conversation ids sent to create_conversation
    upload_result           \* the dict the call returned

schedVars == <<max_concurrent_tasks, semaphore, waiters, spc, tstate, results,
               successful_results, failed_tasks, done_order>>

retryVars == <<max_attempts, delay_seconds, rpc, attempt_number, calls, failures,
               waits, last_error, return_value, raised>>

ingestVars == <<ipc, bucket_uri, attempt, submissions, submit_delays, caught,
                operation, ingest_result, submit_error, result_waits>>

batchVars == <<batch_size, max_concurrent_batches, batch_semaphore, bpc, items,
               batches, bstate, istate, item_results, batch_results,
               all_results>>

pipeVars == <<ppc, mode, audio_files, file_index, file_result, file_results,
              run_results, processing_stats, summary, exit_code>>

mgrVars == <<mgr_max_concurrent_tasks, mgr_semaphore, mgr_waiters, call_pc,
             call_tstate>>

uploadVars == <<conversation_data, upload_calls, create_requests, upload_result>>

vars == <<schedVars, retryVars, ingestVars, batchVars, pipeVars, mgrVars,
          uploadVars>>

\* what a step of one component leaves alone
notSched == <<retryVars, ingestVars, batchVars, pipeVars, mgrVars,
             uploadVars>>
notRetry == <<schedVars, ingestVars, batchVars, pipeVars, mgrVars,
             uploadVars>>
notIngest == <<schedVars, retryVars, batchVars, pipeVars, mgrVars,
             uploadVars>>
notBatch == <<schedVars, retryVars, ingestVars, pipeVars, mgrVars,
             uploadVars>>
notPipe == <<schedVars, retryVars, ingestVars, batchVars, mgrVars,
             uploadVars>>
notMgr == <<schedVars, retryVars, ingestVars, batchVars, pipeVars, uploadVars>>
\* what a step of the body of upload_conversation leaves alone
notUpload == <<schedVars, ingestVars, batchVars, pipeVars, mgrVars>>

(***************************************************************************)
(* Small helpers.                                                          *)
(***************************************************************************)
Min(a, b) == IF a <= b THEN a ELSE b
Max(a, b) == IF a >= b THEN a ELSE b

RECURSIVE Pow2(_)
Pow2(n) == IF n <= 0 THEN 1 ELSE 2 * Pow2(n - 1)

(***************************************************************************)
(* Text: a str is a sequence of one-character strings.                     *)
(***************************************************************************)
DigitChars == <<"0", "1", "2", "3", "4", "5", "6", "7", "8", "9">>

IsDigit(c) == \E d \in 1..10 : DigitChars[d] = c

DigitValue(c) == (CHOOSE d \in 1..10 : DigitChars[d] = c) - 1

RECURSIVE py_str(_)
\* str(n) of an int n >= 0: its decimal digits
py_str(n) ==
    IF n < 10 THEN <<DigitChars[n + 1]>>
    ELSE py_str(n \div 10) \o <<DigitChars[(n % 10) + 1]>>

RECURSIVE py_int(_)
\* int(ds) of a text of decimal digits
py_int(ds) ==
    IF ds = <<>> THEN 0
    ELSE py_int(SubSeq(ds, 1, Len(ds) - 1)) * 10 + DigitValue(ds[Len(ds)])

\* lit in s
Contains(s, lit) ==
    \E i \in 1..(Len(s) - Len(lit) + 1) : SubSeq(s, i, i + Len(lit) - 1) = lit

StartsWith_Always(s, lit) == TRUE
\* s.startswith(lit)
StartsWith(s, lit) == Len(s) >= Len(lit) /\ SubSeq(s, 1, Len(lit)) = lit

\* s.endswith(lit)
EndsWith(s, lit) ==
    Len(s) >= Len(lit) /\ SubSeq(s, Len(s) - Len(lit) + 1, Len(s)) = lit

UpperToLower ==
    ("A" :> "a") @@ ("B" :> "b") @@ ("C" :> "c") @@ ("D" :> "d") @@ ("E" :> "e") @@ ("G" :> "g")
    @@ ("I" :> "i") @@ ("L" :> "l") @@ ("O" :> "o") @@ ("P" :> "p")
    @@ ("Q" :> "q") @@ ("R" :> "r") @@ ("S" :> "s") @@ ("T" :> "t")
    @@ ("U" :> "u")

\* s.lower(), over the capitals the texts of the model use
Lower(s) ==
    [i \in 1..Len(s) |->
        IF s[i] \in DOMAIN UpperToLower THEN UpperToLower[s[i]] ELSE s[i]]

\* the end of the run of digits that starts at s[i]
DigitRunEnd(s, i) ==
    CHOOSE j \in i..Len(s) :
        /\ \A k \in i..j : IsDigit(s[k])
        /\ j = Len(s) \/ ~IsDigit(s[j + 1])

\* the pattern (\d+)<lit> matches s at i; lit starts with a non-digit, so the
\* greedy \d+ takes the whole run of digits
DigitsThenAt(s, i, lit) ==
    /\ IsDigit(s[i])
    /\ LET j == DigitRunEnd(s, i) IN
       /\ j + Len(lit) <= Len(s)
       /\ SubSeq(s, j + 1, j + Len(lit)) = lit

\* re.search(r'(\d+)<lit>', s): group(1) of the leftmost match, <<>> for None
re_search_digits(s, lit) ==
    IF \E i \in 1..Len(s) : DigitsThenAt(s, i, lit)
    THEN LET i == CHOOSE k \in 1..Len(s) :
                      /\ DigitsThenAt(s, k, lit)
                      /\ \A m \in 1..(k - 1) : ~DigitsThenAt(s, m, lit)
         IN SubSeq(s, i, DigitRunEnd(s, i))
    ELSE <<>>

T_gs ==
    <<"g", "s", ":", "/", "/">>

T_slash ==
    <<"/">>

T_invalid_uri ==
    <<"I", "n", "v", "a", "l", "i", "d", " ", "G", "C", "S", " ", "b", "u",
      "c", "k", "e", "t", " ", "U", "R", "I", ":", " ">>

T_already_exist ==
    <<"a", "l", "r", "e", "a", "d", "y", " ", "e", "x", "i", "s", "t">>

T_were_skipped ==
    <<"w", "e", "r", "e", " ", "s", "k", "i", "p", "p", "e", "d">>

T_skipped_as_exist ==
    <<" ", "w", "e", "r", "e", " ", "s", "k", "i", "p", "p", "e", "d", " ",
      "a", "s", " ", "t", "h", "e", "y", " ", "a", "l", "r", "e", "a", "d",
      "y", " ", "e", "x", "i", "s", "t">>

T_failed ==
    <<" ", "f", "a", "i", "l", "e", "d">>

T_and ==
    <<" ", "a", "n", "d", " ">>

T_409 ==
    <<"4", "0", "9", " ">>

T_files ==
    <<" ", "f", "i", "l", "e", "s">>

T_deadline ==
    <<"D", "e", "a", "d", "l", "i", "n", "e", " ", "E", "x", "c", "e", "e",
      "d", "e", "d">>

T_timeout ==
    <<"O", "p", "e", "r", "a", "t", "i", "o", "n", " ", "d", "i", "d", " ",
      "n", "o", "t", " ", "c", "o", "m", "p", "l", "e", "t", "e", " ", "w",
      "i", "t", "h", "i", "n", " ", "t", "h", "e", " ", "d", "e", "s", "i",
      "g", "n", "a", "t", "e", "d", " ", "t", "i", "m", "e", "o", "u", "t",
      " ", "o", "f", " ", "9", "0", "0", " ", "s", "e", "c", "o", "n", "d",
      "s", ".">>

T_internal ==
    <<"I", "n", "t", "e", "r", "n", "a", "l", " ", "e", "r", "r", "o", "r",
      ":", " ", "3", " ", "f", "a", "i", "l", "e", "d">>

T_concurrent ==
    <<"c", "o", "n", "c", "u", "r", "r", "e", "n", "t", " ", "b", "u", "l",
      "k", " ", "i", "n", "g", "e", "s", "t">>

T_quota ==
    <<"q", "u", "o", "t", "a">>

T_rate_limit ==
    <<"r", "a", "t", "e", " ", "l", "i", "m", "i", "t">>

T_too_many ==
    <<"T", "o", "o", " ", "m", "a", "n", "y", " ", "r", "e", "q", "u", "e",
      "s", "t", "s">>

T_exhausted ==
    <<"R", "e", "s", "o", "u", "r", "c", "e", " ", "e", "x", "h", "a", "u",
      "s", "t", "e", "d">>

T_concurrent_msg ==
    <<"O", "n", "l", "y", " ", "1", " ", "C", "o", "n", "c", "u", "r", "r",
      "e", "n", "t", " ", "B", "u", "l", "k", " ", "I", "n", "g", "e", "s",
      "t", " ", "j", "o", "b", " ", "i", "s", " ", "a", "l", "l", "o", "w",
      "e", "d">>

T_quota_msg ==
    <<"Q", "u", "o", "t", "a", " ", "e", "x", "c", "e", "e", "d", "e", "d">>

T_rate_msg ==
    <<"R", "a", "t", "e", " ", "L", "i", "m", "i", "t", " ", "r", "e", "a",
      "c", "h", "e", "d">>

T_permission_msg ==
    <<"P", "e", "r", "m", "i", "s", "s", "i", "o", "n", " ", "d", "e", "n",
      "i", "e", "d", " ", "o", "n", " ", "r", "e", "s", "o", "u", "r", "c",
      "e">>

T_permission ==
    <<"p", "e", "r", "m", "i", "s", "s", "i", "o", "n">>

T_access ==
    <<"a", "c", "c", "e", "s", "s">>

T_recognizer ==
    <<"r", "e", "c", "o", "g", "n", "i", "z", "e", "r">>

\* a PermissionDenied error of the API whose text names the quota project
T_permission_quota_msg ==
    <<"P", "e", "r", "m", "i", "s", "s", "i", "o", "n", " ", "d", "e", "n",
      "i", "e", "d", ":", " ", "t", "h", "e", " ", "A", "P", "I", " ", "r",
      "e", "q", "u", "i", "r", "e", "s", " ", "a", " ", "q", "u", "o", "t",
      "a", " ", "p", "r", "o", "j", "e", "c", "t">>

T_recognizer_msg ==
    <<"R", "e", "c", "o", "g", "n", "i", "z", "e", "r", " ", "n", "o", "t",
      " ", "f", "o", "u", "n", "d">>

T_bucket_ok ==
    <<"g", "s", ":", "/", "/", "b", "/", "f", "/">>

T_bucket_noslash ==
    <<"g", "s", ":", "/", "/", "b">>

T_bucket_bad ==
    <<"s", "3", ":", "/", "/", "b", "/">>

(***************************************************************************)
(* The state of a component that is not exercised by a specification.      *)
(***************************************************************************)
NoError == [type |-> "none", call |-> 0]

SchedQuiet ==
    /\ max_concurrent_tasks = 1
    /\ semaphore = 1
    /\ waiters = <<>>
    /\ spc = "idle"
    /\ tstate = <<>>
    /\ results = <<>>
    /\ successful_results = <<>>
    /\ failed_tasks = <<>>
    /\ done_order = <<>>

RetryQuiet ==
    /\ max_attempts = 1
    /\ delay_seconds = 0
    /\ rpc = "idle"
    /\ attempt_number = 0
    /\ calls = 0
    /\ failures = 0
    /\ waits = <<>>
    /\ last_error = NoError
    /\ return_value = 0
    /\ raised = NoError

\* Python's None where the other values are texts
None == <<"None">>

\* a dict key that is not present, where the other values are counts
Absent == -1

\* operation.metadata is None
NoMetadata ==
    [kind |-> "none", successful_ingest_count |-> 0, failed_ingest_count |-> 0,
     duplicates_skipped_count |-> 0, processed_object_count |-> 0]

\* error_type is the type of what operation.result raised
NoOperation ==
    [state |-> "none", metadata |-> NoMetadata, error |-> None,
     error_type |-> "None"]
NoSubmitError == [msg |-> None, code |-> 0, type |-> "None"]
NoCaught == [where |-> "none", msg |-> None]

\* the result dicts of _monitor_ingestion_operation and
\* ingest_conversations_from_gcs, as one record
ResultDict(success, name, ingested, failed, duplicates, total, lro, error) ==
    [returned |-> TRUE,
     success |-> success,
     operation_name |-> name,
     conversations_ingested |-> ingested,
     failed_conversations |-> failed,
     duplicate_conversations |-> duplicates,
     total_processed |-> total,
     lro_completed |-> lro,
     error |-> error,
     note |-> FALSE,
     deduplication_message |-> None,
     bucket_uri |-> None]

NoResult ==
    [ResultDict(FALSE, "None", Absent, Absent, Absent, Absent, FALSE, None)
        EXCEPT !.returned = FALSE]

IngestQuiet ==
    /\ ipc = "idle"
    /\ bucket_uri = <<>>
    /\ attempt = 0
    /\ submissions = 0
    /\ submit_delays = <<>>
    /\ caught = NoCaught
    /\ operation = NoOperation
    /\ ingest_result = NoResult
    /\ submit_error = NoSubmitError
    /\ result_waits = 0

BatchQuiet ==
    /\ batch_size = 1
    /\ max_concurrent_batches = 1
    /\ batch_semaphore = 1
    /\ bpc = "idle"
    /\ items = <<>>
    /\ batches = <<>>
    /\ bstate = <<>>
    /\ istate = <<>>
    /\ item_results = <<>>
    /\ batch_results = <<>>
    /\ all_results = <<>>

\* file_result as _process_single_file creates it; raised_at records the
\* stage whose call raised (0: none) and temp_file what became of the
\* temporary file of _upload_json_data_sync
NewFileResult(blob) ==
    [blob_name |-> blob,
     success |-> FALSE,
     steps_completed |-> <<>>,
     error |-> "None",
     upload_result |-> "None",
     raised_at |-> 0,
     temp_file |-> "none"]

\* a timestamp that is None; the others are seconds on the clock
NoTime == -1

\* duration_seconds of a summary that is None
NoDuration == [present |-> FALSE, seconds |-> 0]

\* self.processing_stats as __init__ sets it
InitialStats ==
    [files_discovered |-> 0,
     files_processed |-> 0,
     files_failed |-> 0,
     conversations_created |-> 0,
     conversations_uploaded |-> 0,
     start_time |-> NoTime,
     end_time |-> NoTime]

\* the results dict has no 'ingest_result' key
NoIngestResult ==
    [kind |-> "absent", success |-> FALSE, conversations_ingested |-> 0,
     error |-> "None"]

NoRunResults ==
    [successful_results |-> <<>>, failed_results |-> <<>>, total_processed |-> 0,
     ingest_result |-> NoIngestResult]

NoSummary ==
    [status |-> "None",
     processing_mode |-> "None",
     files_discovered |-> 0,
     files_processed_successfully |-> 0,
     files_failed |-> 0,
     conversations_created |-> 0,
     conversations_uploaded_successfully |-> 0,
     successful_conversations |-> <<>>,
     failed_files |-> <<>>,
     duration_seconds |-> NoDuration,
     success_rate_percent |-> 0,
     upload_success_rate_percent |-> 0,
     start_time |-> NoTime,
     end_time |-> NoTime]

PipeQuiet ==
    /\ ppc = "idle"
    /\ mode = "None"
    /\ audio_files = <<>>
    /\ file_index = 0
    /\ file_result = NewFileResult(0)
    /\ file_results = <<>>
    /\ run_results = NoRunResults
    /\ processing_stats = InitialStats
    /\ summary = NoSummary
    /\ exit_code = Absent

\* no conversation_data: no call of upload_conversation is in progress
NoConversation == [name |-> <<"NoConversation">>]

\* no dict returned yet
NoUpload ==
    [returned |-> FALSE, success |-> FALSE, conversation_id |-> None,
     created |-> FALSE, error |-> None]

UploadQuiet ==
    /\ conversation_data = NoConversation
    /\ upload_calls = 0
    /\ create_requests = <<>>
    /\ upload_result = NoUpload

\* the coroutines that call run_tasks on the same manager
Callers == {"a", "b"}

MgrQuiet ==
    /\ mgr_max_concurrent_tasks = 1
    /\ mgr_semaphore = 1
    /\ mgr_waiters = <<>>
    /\ call_pc = [c \in Callers |-> "idle"]
    /\ call_tstate = [c \in Callers |-> <<>>]

(***************************************************************************)
(* AsyncTaskManager                                                        *)
(***************************************************************************)

\* What awaiting a submitted coroutine can produce: a value, None, an
\* exception (an instance of Exception), or asyncio.CancelledError, which is a
\* BaseException but not an Exception.
TaskOutcomes == {"value", "None", "Exception", "CancelledError"}

Raises(o) == o \in {"Exception", "CancelledError"}

Tasks == 1..Len(tstate)

InFlight == {t \in Tasks : tstate[t] = "running"}

ReturnExceptions_Default == FALSE
\* asyncio.gather(*wrapped_tasks, return_exceptions=True)
ReturnExceptions == TRUE

\* isinstance(result, Exception)
IsException(r) == r = "Exception"

SemaphoreLocked_Never(v) == FALSE
\* Semaphore.locked() as seen by `async with self.semaphore`
SemaphoreLocked(v) == v <= 0

SemaphoreAfterExit_LeakOnError(v, o) == IF Raises(o) THEN v ELSE v + 1
\* leaving `async with self.semaphore`: __aexit__ releases on every exit path
SemaphoreAfterExit(v, o) == v + 1

SchedInit ==
    /\ max_concurrent_tasks \in 1..MaxConcurrent
    /\ semaphore = max_concurrent_tasks
    /\ waiters = <<>>
    /\ spc = "idle"
    /\ tstate = <<>>
    /\ results = <<>>
    /\ successful_results = <<>>
    /\ failed_tasks = <<>>
    /\ done_order = <<>>

\* run_tasks(tasks) with n coroutines, up to the await of gather: every
\* coroutine is wrapped and scheduled.
run_tasks(n) ==
    /\ spc = "idle"
    /\ spc' = "gather"
    /\ tstate' = [i \in 1..n |-> "scheduled"]
    /\ results' = [i \in 1..n |-> "pending"]
    /\ done_order' = <<>>
    /\ UNCHANGED <<max_concurrent_tasks, semaphore, waiters,
                   successful_results, failed_tasks>>
    /\ UNCHANGED notSched

\* _run_with_semaphore(task) reaches `async with self.semaphore`: it takes a
\* permit when one is free, and queues otherwise (also behind earlier waiters).
Acquire(t) ==
    /\ t \in Tasks
    /\ tstate[t] = "scheduled"
    /\ \/ /\ ~SemaphoreLocked(semaphore)
          /\ semaphore' = semaphore - 1
          /\ tstate' = [tstate EXCEPT ![t] = "running"]
          /\ UNCHANGED waiters
       \/ /\ SemaphoreLocked(semaphore) \/ waiters # <<>>
          /\ waiters' = Append(waiters, t)
          /\ tstate' = [tstate EXCEPT ![t] = "waiting"]
          /\ UNCHANGED semaphore
    /\ UNCHANGED <<max_concurrent_tasks, spc, results, successful_results,
                   failed_tasks, done_order>>
    /\ UNCHANGED notSched

\* the first waiter is woken by a release and takes the permit
WakeUp(t) ==
    /\ waiters # <<>>
    /\ t = Head(waiters)
    /\ ~SemaphoreLocked(semaphore)
    /\ semaphore' = semaphore - 1
    /\ waiters' = Tail(waiters)
    /\ tstate' = [tstate EXCEPT ![t] = "running"]
    /\ UNCHANGED <<max_concurrent_tasks, spc, results, successful_results,
                   failed_tasks, done_order>>
    /\ UNCHANGED notSched

\* `return await task` ends with outcome o; the permit is released, gather
\* records the outcome, and without return_exceptions the first exception is
\* propagated at once to the awaiting run_tasks.
Finish(t, o) ==
    /\ t \in Tasks
    /\ tstate[t] = "running"
    /\ tstate' = [tstate EXCEPT ![t] = "done"]
    /\ semaphore' = SemaphoreAfterExit(semaphore, o)
    /\ results' = [results EXCEPT ![t] = o]
    /\ done_order' = Append(done_order, t)
    /\ spc' = IF spc = "gather" /\ Raises(o) /\ ~ReturnExceptions
              THEN "raised" ELSE spc
    /\ UNCHANGED <<max_concurrent_tasks, waiters, successful_results,
                   failed_tasks>>
    /\ UNCHANGED notSched

\* enumerate(results): the task indices in input order
Indices(rs) == [i \in 1..Len(rs) |-> i]

SuccessfulOf_CompletionOrder(rs) ==
    SelectSeq(done_order, LAMBDA i : ~IsException(rs[i]))
SuccessfulOf_DropFalsy(rs) == SelectSeq(Indices(rs), LAMBDA i : rs[i] = "value")
\* for i, result in enumerate(results): ... successful_results.append(result)
SuccessfulOf(rs) == SelectSeq(Indices(rs), LAMBDA i : ~IsException(rs[i]))

\* for i, result in enumerate(results): ... failed_tasks.append((i, result))
FailedOf(rs) == SelectSeq(Indices(rs), LAMBDA i : IsException(rs[i]))

\* gather completes once every wrapped task is done; run_tasks then separates
\* the results and returns successful_results.
GatherReturn ==
    /\ spc = "gather"
    /\ \A t \in Tasks : tstate[t] = "done"
    /\ successful_results' = SuccessfulOf(results)
    /\ failed_tasks' = FailedOf(results)
    /\ spc' = "returned"
    /\ UNCHANGED <<max_concurrent_tasks, semaphore, waiters, tstate, results,
                   done_order>>
    /\ UNCHANGED notSched

SchedCall == \E n \in 0..MaxTasks : run_tasks(n)
SchedAcquire == \E t \in 1..MaxTasks : Acquire(t)
SchedWakeUp == \E t \in 1..MaxTasks : WakeUp(t)
SchedFinish == \E t \in 1..MaxTasks : \E o \in TaskOutcomes : Finish(t, o)

SchedNext ==
    \/ SchedCall
    \/ SchedAcquire
    \/ SchedWakeUp
    \/ SchedFinish
    \/ GatherReturn

SchedSpecInit ==
    SchedInit /\ RetryQuiet /\ IngestQuiet /\ BatchQuiet /\ PipeQuiet
    /\ MgrQuiet /\ UploadQuiet

SchedSpec == SchedSpecInit /\ [][SchedNext]_vars

\* The event loop runs every ready task, and every admitted coroutine is
\* assumed to terminate.
SchedFairSpec ==
    /\ SchedSpec
    /\ \A t \in 1..MaxTasks : WF_vars(Acquire(t))
    /\ \A t \in 1..MaxTasks : WF_vars(WakeUp(t))
    /\ \A t \in 1..MaxTasks : WF_vars(\E o \in TaskOutcomes : Finish(t, o))
    /\ WF_vars(GatherReturn)

\* `return successful_results`: the list the caller of run_tasks receives
\* for the gathered outcomes rs, the values of the tasks that did not fail
ReturnedValues(rs) ==
    [j \in 1..Len(SuccessfulOf(rs)) |-> rs[SuccessfulOf(rs)[j]]]

\* run_with_timeout(manager.run_tasks(tasks), timeout_seconds): the timeout
\* expires while run_tasks awaits gather.  wait_for cancels run_tasks, the
\* gather and with it every wrapped task that is not done (those inside
\* `async with` release their permit, the waiters leave the queue), and
\* run_with_timeout returns None
TimeoutExpires ==
    /\ spc = "gather"
    /\ tstate' = [t \in Tasks |->
                    IF tstate[t] = "done" THEN "done" ELSE "cancelled"]
    /\ semaphore' = semaphore + Cardinality(InFlight)
    /\ waiters' = <<>>
    /\ spc' = "timed_out"
    /\ UNCHANGED <<max_concurrent_tasks, results, successful_results,
                   failed_tasks, done_order>>
    /\ UNCHANGED notSched

TimeoutNext == SchedNext \/ TimeoutExpires

TimeoutSpec == SchedSpecInit /\ [][TimeoutNext]_vars

(***************************************************************************)
(* One AsyncTaskManager used by several run_tasks calls, one after the     *)
(* other and at the same time: the semaphore is the manager's, the wrapped *)
(* tasks are each call's.                                                  *)
(***************************************************************************)
CallTasks(c) == 1..Len(call_tstate[c])

\* the wrapped tasks of all the calls that are inside `async with`
AllInFlight ==
    {ct \in Callers \X (1..MaxCallTasks) :
        /\ ct[2] \in CallTasks(ct[1])
        /\ call_tstate[ct[1]][ct[2]] = "running"}

\* AsyncTaskManager(max_concurrent_tasks)
MgrInit ==
    /\ mgr_max_concurrent_tasks \in 1..MaxConcurrent
    /\ mgr_semaphore = mgr_max_concurrent_tasks
    /\ mgr_waiters = <<>>
    /\ call_pc = [c \in Callers |-> "idle"]
    /\ call_tstate = [c \in Callers |-> <<>>]

\* caller c calls run_tasks with n coroutines (again, once its previous call
\* has returned), up to the await of gather
CallRunTasks(c, n) ==
    /\ call_pc[c] \in {"idle", "returned"}
    /\ call_pc' = [call_pc EXCEPT ![c] = "gather"]
    /\ call_tstate' = [call_tstate EXCEPT ![c] = [i \in 1..n |-> "scheduled"]]
    /\ UNCHANGED <<mgr_max_concurrent_tasks, mgr_semaphore, mgr_waiters>>
    /\ UNCHANGED notMgr

\* task t of caller c reaches `async with self.semaphore`
CallAcquire(c, t) ==
    /\ t \in CallTasks(c)
    /\ call_tstate[c][t] = "scheduled"
    /\ \/ /\ ~SemaphoreLocked(mgr_semaphore)
          /\ mgr_semaphore' = mgr_semaphore - 1
          /\ call_tstate' = [call_tstate EXCEPT ![c][t] = "running"]
          /\ UNCHANGED mgr_waiters
       \/ /\ SemaphoreLocked(mgr_semaphore) \/ mgr_waiters # <<>>
          /\ mgr_waiters' = Append(mgr_waiters, <<c, t>>)
          /\ call_tstate' = [call_tstate EXCEPT ![c][t] = "waiting"]
          /\ UNCHANGED mgr_semaphore
    /\ UNCHANGED <<mgr_max_concurrent_tasks, call_pc>>
    /\ UNCHANGED notMgr

\* the first waiter, of whichever call, is woken by a release
CallWakeUp ==
    /\ mgr_waiters # <<>>
    /\ ~SemaphoreLocked(mgr_semaphore)
    /\ mgr_semaphore' = mgr_semaphore - 1
    /\ mgr_waiters' = Tail(mgr_waiters)
    /\ call_tstate' = [call_tstate EXCEPT
                          ![Head(mgr_waiters)[1]][Head(mgr_waiters)[2]] = "running"]
    /\ UNCHANGED <<mgr_max_concurrent_tasks, call_pc>>
    /\ UNCHANGED notMgr

\* `return await task` of task t of caller c ends with outcome o
CallFinish(c, t, o) ==
    /\ t \in CallTasks(c)
    /\ call_tstate[c][t] = "running"
    /\ call_tstate' = [call_tstate EXCEPT ![c][t] = "done"]
    /\ mgr_semaphore' = SemaphoreAfterExit(mgr_semaphore, o)
    /\ UNCHANGED <<mgr_max_concurrent_tasks, mgr_waiters, call_pc>>
    /\ UNCHANGED notMgr

\* the gather of caller c completes and its run_tasks returns
CallReturn(c) ==
    /\ call_pc[c] = "gather"
    /\ \A t \in CallTasks(c) : call_tstate[c][t] = "done"
    /\ call_pc' = [call_pc EXCEPT ![c] = "returned"]
    /\ UNCHANGED <<mgr_max_concurrent_tasks, mgr_semaphore, mgr_waiters,
                   call_tstate>>
    /\ UNCHANGED notMgr

MgrCall == \E c \in Callers : \E n \in 0..MaxCallTasks : CallRunTasks(c, n)
MgrAcquire == \E c \in Callers : \E t \in 1..MaxCallTasks : CallAcquire(c, t)
MgrFinish ==
    \E c \in Callers : \E t \in 1..MaxCallTasks : \E o \in TaskOutcomes :
        CallFinish(c, t, o)
MgrReturn == \E c \in Callers : CallReturn(c)

MgrNext ==
    \/ MgrCall
    \/ MgrAcquire
    \/ CallWakeUp
    \/ MgrFinish
    \/ MgrReturn

MgrSpecInit ==
    /\ MgrInit
    /\ SchedQuiet /\ RetryQuiet /\ IngestQuiet /\ BatchQuiet /\ PipeQuiet
    /\ UploadQuiet

MgrSpec == MgrSpecInit /\ [][MgrNext]_vars

(***************************************************************************)
(* Claims about AsyncTaskManager.run_tasks                                 *)
(***************************************************************************)

\* C1: at every instant of a run_tasks call on a manager built with
\* max_concurrent_tasks = C >= 1, at most C coroutines hold the semaphore
\* without having finished.
C1_AtMostCInFlight == Cardinality(InFlight) <= max_concurrent_tasks

\* the cap binds: C coroutines are running while another one waits
C1_Witness ==
    /\ spc = "gather"
    /\ Cardinality(InFlight) = max_concurrent_tasks
    /\ waiters # <<>>

InSeq(x, q) == \E i \in 1..Len(q) : q[i] = x
CountIn(x, q) == Cardinality({i \in 1..Len(q) : q[i] = x})

\* C2: when run_tasks returns, the results classified successful plus the
\* results classified failed are N, and every task is in exactly one of the
\* two lists, exactly once.
C2_EveryTaskAccounted ==
    spc = "returned" =>
        /\ Len(successful_results) + Len(failed_tasks) = Len(tstate)
        /\ \A t \in Tasks :
              CountIn(t, successful_results) + CountIn(t, failed_tasks) = 1

\* a returned call with successes of every kind and a failure
C2_Witness ==
    /\ spc = "returned"
    /\ Len(tstate) = MaxTasks
    /\ failed_tasks # <<>>
    /\ \E t \in Tasks : results[t] = "CancelledError"
    /\ \E t \in Tasks : results[t] = "None"

\* C3: an exception of one task is that task's failure only: run_tasks never
\* raises, a failed task never leaves a sibling unable to take its next step,
\* and at return every task has run to its end and the failed list holds
\* exactly the tasks that raised an Exception.
C3_FailureIsolated ==
    /\ spc # "raised"
    /\ (spc = "gather" /\ (\E t \in Tasks : Raises(results[t]))
                       /\ (\E t \in Tasks : tstate[t] # "done"))
          => ENABLED (SchedAcquire \/ SchedWakeUp \/ SchedFinish)
    /\ spc = "returned" =>
          /\ \A t \in Tasks : tstate[t] = "done" /\ results[t] \in TaskOutcomes
          /\ \A t \in Tasks : InSeq(t, failed_tasks) <=> results[t] = "Exception"

\* with one permit, a task failed and a sibling still ran to a value
C3_Witness ==
    /\ spc = "returned"
    /\ max_concurrent_tasks = 1
    /\ \E t, u \in Tasks : results[t] = "Exception" /\ results[u] = "value"

\* C4: when every admitted coroutine terminates, every task of a run_tasks
\* call is eventually admitted and completes, and run_tasks returns.
C4_AllCompleteAndReturn ==
    (spc = "gather") ~> (spc = "returned" /\ \A t \in Tasks : tstate[t] = "done")

\* a call with more tasks than permits has returned
C4_Witness ==
    /\ spc = "returned"
    /\ Len(tstate) > max_concurrent_tasks
    /\ \A t \in Tasks : tstate[t] = "done"

(***************************************************************************)
(* async_retry                                                             *)
(***************************************************************************)

\* wait_exponential(..., min=1, ...)
WaitMin == 1
\* wait_exponential(..., max=60)
WaitMax == 60

\* the delay_seconds arguments tried: 0, one tick (less than a second),
\* 1 s, 2 s (the value every decorated function of the repository passes),
\* 16 s and 40 s (which reach the 60 s cap on the third and second wait)
DelayChoices ==
    {0, 1, TicksPerSecond, 2 * TicksPerSecond, 16 * TicksPerSecond, 40 * TicksPerSecond}

stop_after_attempt_OffByOne(n) == n > max_attempts
\* stop=stop_after_attempt(max_attempts): stop once attempt_number reaches it
stop_after_attempt(n) == n >= max_attempts

wait_exponential_FromTwo(n) ==
    Max(Max(0, WaitMin * TicksPerSecond),
        Min(delay_seconds * Pow2(n), WaitMax * TicksPerSecond))
\* wait=wait_exponential(multiplier=delay_seconds, min=1, max=60):
\* max(max(0, min), min(multiplier * 2 ** (attempt_number - 1), max))
wait_exponential(n) ==
    Max(Max(0, WaitMin * TicksPerSecond),
        Min(delay_seconds * Pow2(n - 1), WaitMax * TicksPerSecond))

\* @retry(stop=..., wait=...) is given no reraise argument
Reraise == FALSE

\* the error raised by invocation k of the wrapped function
ErrorOf(k) == [type |-> "Exception", call |-> k]

\* what the decorator raises once it stops: the last error itself with
\* reraise, a RetryError made from the last attempt without
RaisedOnStop(e) == IF Reraise THEN e ELSE [type |-> "RetryError", call |-> e.call]

RetryInit ==
    /\ max_attempts \in 1..MaxAttempts
    /\ delay_seconds \in DelayChoices
    /\ rpc = "idle"
    /\ attempt_number = 0
    /\ calls = 0
    /\ failures = 0
    /\ waits = <<>>
    /\ last_error = NoError
    /\ return_value = 0
    /\ raised = NoError

\* the decorated function is called: a fresh retry state, attempt 1
RetryInvoke ==
    /\ rpc = "idle"
    /\ rpc' = "calling"
    /\ attempt_number' = 1
    /\ UNCHANGED <<max_attempts, delay_seconds, calls, failures, waits,
                   last_error, return_value, raised>>
    /\ UNCHANGED notRetry

\* `return await func(*args, **kwargs)` returns a value
CallSucceeds ==
    /\ rpc = "calling"
    /\ calls' = calls + 1
    /\ return_value' = calls'
    /\ rpc' = "returned"
    /\ UNCHANGED <<max_attempts, delay_seconds, attempt_number, failures, waits,
                   last_error, raised>>
    /\ UNCHANGED notRetry

\* func raises: wrapper logs and re-raises, the retry state either stops and
\* raises to the caller or sleeps wait_exponential before the next attempt
CallFails ==
    /\ rpc = "calling"
    /\ calls' = calls + 1
    /\ failures' = failures + 1
    /\ last_error' = ErrorOf(calls')
    /\ IF stop_after_attempt(attempt_number)
       THEN /\ rpc' = "raised"
            /\ raised' = RaisedOnStop(last_error')
            /\ UNCHANGED waits
       ELSE /\ rpc' = "sleeping"
            /\ waits' = Append(waits, wait_exponential(attempt_number))
            /\ UNCHANGED raised
    /\ UNCHANGED <<max_attempts, delay_seconds, attempt_number, return_value>>
    /\ UNCHANGED notRetry

\* the backoff sleep ends and the next attempt starts
SleepDone ==
    /\ rpc = "sleeping"
    /\ rpc' = "calling"
    /\ attempt_number' = attempt_number + 1
    /\ UNCHANGED <<max_attempts, delay_seconds, calls, failures, waits,
                   last_error, return_value, raised>>
    /\ UNCHANGED notRetry

RetryNext ==
    \/ RetryInvoke
    \/ CallSucceeds
    \/ CallFails
    \/ SleepDone

RetrySpecInit ==
    RetryInit /\ SchedQuiet /\ IngestQuiet /\ BatchQuiet /\ PipeQuiet
    /\ MgrQuiet /\ UploadQuiet

RetrySpec == RetrySpecInit /\ [][RetryNext]_vars

(***************************************************************************)
(* CCAIUploader.upload_conversation under @async_retry(3, 2.0)             *)
(***************************************************************************)

\* @async_retry(max_attempts=3, ...) on upload_conversation
UploadMaxAttempts == 3
\* @async_retry(..., delay_seconds=2.0) on upload_conversation
UploadDelaySeconds == 2

\* the 'name' key is not in the dict
Missing == <<"Missing">>

\* the conversation_data arguments tried: the name the formatter writes
\* (a path ending in the conversation id), a bare id, a name ending in "/",
\* an empty name, no name key, and a name that is None
ConversationDatas ==
    [name : {<<"p", "/", "c", "/", "1">>, <<"p", "/", "c", "/", "2">>,
             <<"7">>, <<"c", "/">>, <<>>, Missing, None}]

\* conversation_data.get('name', '')
GetName(cd) == IF cd.name = Missing THEN <<>> ELSE cd.name

\* s.split('/')[-1]: the text after the last "/" of s
RECURSIVE SplitLast(_)
SplitLast(s) ==
    IF s = <<>> THEN <<>>
    ELSE IF s[Len(s)] = "/" THEN <<>>
    ELSE SplitLast(SubSeq(s, 1, Len(s) - 1)) \o <<s[Len(s)]>>

\* how the try block of upload_conversation can end: the conversation
\* object cannot be built, create_conversation raises, or it answers
BodyOutcomes ==
    [kind : {"object_raises", "create_raises"}, msg : {T_internal, T_deadline}]
    \cup {[kind |-> "created", msg |-> None]}

\* the dict upload_conversation returns for conversation id cid and the
\* outcome o of its try block
UploadResult(cid, o) ==
    [returned |-> TRUE,
     success |-> o.kind = "created",
     conversation_id |-> cid,
     created |-> o.kind = "created",
     error |-> o.msg]

UploadInit ==
    /\ max_attempts = UploadMaxAttempts
    /\ delay_seconds = UploadDelaySeconds * TicksPerSecond
    /\ rpc = "idle"
    /\ attempt_number = 0
    /\ calls = 0
    /\ failures = 0
    /\ waits = <<>>
    /\ last_error = NoError
    /\ return_value = 0
    /\ raised = NoError
    /\ UploadQuiet

\* the decorated upload_conversation(conversation_data) is called: a fresh
\* retry state, attempt 1
upload_conversation(cd) ==
    /\ rpc = "idle"
    /\ upload_calls < MaxUploads
    /\ conversation_data' = cd
    /\ upload_calls' = upload_calls + 1
    /\ upload_result' = NoUpload
    /\ rpc' = "calling"
    /\ attempt_number' = 1
    /\ UNCHANGED <<max_attempts, delay_seconds, calls, failures, waits,
                   last_error, return_value, raised, create_requests>>
    /\ UNCHANGED notUpload

\* conversation_data.get('name', '').split('/')[-1], which stands before the
\* try block, raises AttributeError when the name is None: the function
\* raises to the retry wrapper
UploadIdRaises ==
    /\ conversation_data.name = None
    /\ CallFails

\* the id is read, the try block ends with outcome o and the function
\* returns its dict to the retry wrapper, which returns it to the caller
UploadBodyEnds(o) ==
    /\ rpc = "calling"
    /\ conversation_data # NoConversation
    /\ conversation_data.name # None
    /\ create_requests' =
          IF o.kind = "object_raises" THEN create_requests
          ELSE Append(create_requests, SplitLast(GetName(conversation_data)))
    /\ upload_result' = UploadResult(SplitLast(GetName(conversation_data)), o)
    /\ calls' = calls + 1
    /\ return_value' = calls'
    /\ rpc' = "returned"
    /\ UNCHANGED <<max_attempts, delay_seconds, attempt_number, failures, waits,
                   last_error, raised, conversation_data, upload_calls>>
    /\ UNCHANGED notUpload

\* the caller has its answer; the retry state of the call is discarded
UploadCallOver ==
    /\ rpc \in {"returned", "raised"}
    /\ upload_calls < MaxUploads
    /\ rpc' = "idle"
    /\ attempt_number' = 0
    /\ calls' = 0
    /\ failures' = 0
    /\ waits' = <<>>
    /\ last_error' = NoError
    /\ return_value' = 0
    /\ raised' = NoError
    /\ conversation_data' = NoConversation
    /\ UNCHANGED <<max_attempts, delay_seconds, upload_calls, create_requests,
                   upload_result>>
    /\ UNCHANGED notUpload

UploadCall == \E cd \in ConversationDatas : upload_conversation(cd)
UploadBody == \E o \in BodyOutcomes : UploadBodyEnds(o)

UploadNext ==
    \/ UploadCall
    \/ UploadIdRaises
    \/ UploadBody
    \/ SleepDone
    \/ UploadCallOver

UploadSpecInit ==
    /\ UploadInit
    /\ SchedQuiet /\ IngestQuiet /\ BatchQuiet /\ PipeQuiet /\ MgrQuiet

UploadSpec == UploadSpecInit /\ [][UploadNext]_vars

(***************************************************************************)
(* Claims about async_retry                                                *)
(***************************************************************************)

\* C5: with max_attempts = M, a function that fails k < M times and then
\* succeeds is invoked exactly k+1 times and the value of that last invocation
\* is returned; a function that fails every time is invoked exactly M times and
\* the call then raises; there is never an (M+1)-th invocation.
C5_ExactAttempts ==
    /\ calls <= max_attempts
    /\ rpc = "returned" =>
          /\ failures < max_attempts
          /\ calls = failures + 1
          /\ return_value = calls
    /\ rpc = "raised" =>
          /\ failures = max_attempts
          /\ calls = max_attempts
          /\ raised # NoError

\* M - 1 failures, then the success of invocation M is returned
C5_Witness ==
    /\ rpc = "returned"
    /\ max_attempts = MaxAttempts
    /\ failures = max_attempts - 1
    /\ return_value = max_attempts

\* C6: after max_attempts consecutive failures the caller observes the last
\* error raised by the wrapped function itself, unchanged.
C6_LastErrorUnchanged ==
    rpc = "raised" => raised = last_error

\* the wait the retry contract states: base_delay * 2^(n-1), capped at 60 s
C7_Capped(n) == Min(delay_seconds * Pow2(n - 1), WaitMax * TicksPerSecond)

\* C7 as stated: the wait after failed attempt n is base_delay * 2^(n-1)
\* seconds capped at 60 seconds, for every base_delay.
C7_WaitIsExponentialCapped ==
    /\ Len(waits) <= max_attempts - 1
    /\ \A n \in 1..Len(waits) : waits[n] = C7_Capped(n)

\* C7 amended: the wait after failed attempt n < max_attempts is
\* base_delay * 2^(n-1) seconds, raised to 1 second when it is less and capped
\* at 60 seconds; no wait follows the last attempt.
C7_WaitIsExponentialClamped ==
    /\ Len(waits) <= max_attempts - 1
    /\ Len(waits) = IF rpc = "sleeping" THEN attempt_number
                    ELSE IF rpc = "idle" THEN 0 ELSE attempt_number - 1
    /\ \A n \in 1..Len(waits) :
          LET raw == delay_seconds * Pow2(n - 1) IN
          waits[n] = IF raw < WaitMin * TicksPerSecond THEN WaitMin * TicksPerSecond
                     ELSE IF raw > WaitMax * TicksPerSecond THEN WaitMax * TicksPerSecond
                     ELSE raw

\* two waits were made with a base delay below one second: the first one
\* lasted one second
C7_Witness ==
    /\ Len(waits) = 2
    /\ delay_seconds > 0
    /\ delay_seconds < TicksPerSecond
    /\ waits[1] = WaitMin * TicksPerSecond

(***************************************************************************)
(* CCAIUploader.ingest_conversations_from_gcs                              *)
(***************************************************************************)

\* _start_ingestion_with_retry(..., max_retries: int = 3, ...)
max_retries == 3
\* _start_ingestion_with_retry(..., initial_delay: int = 60)
initial_delay == 60

\* getattr(operation, 'name', ...)
OperationName == "operations/1"

\* the bucket_uri arguments tried
BucketUris == {T_bucket_ok, T_bucket_noslash, T_bucket_bad}

\* "<m> failed and <n> were skipped as they already exist"
DuplicateText(m, n) ==
    py_str(m) \o T_failed \o T_and \o py_str(n) \o T_skipped_as_exist

\* the errors client.ingest_conversations raises in the model: text, the
\* `code` attribute (0 when there is none) and the name of the type
SubmitErrors ==
    {[msg |-> T_too_many, code |-> 429, type |-> "TooManyRequests"],
     [msg |-> T_exhausted, code |-> 0, type |-> "ResourceExhausted"],
     [msg |-> T_concurrent_msg, code |-> 400, type |-> "FailedPrecondition"],
     [msg |-> T_quota_msg, code |-> 0, type |-> "Exception"],
     [msg |-> T_rate_msg, code |-> 0, type |-> "Exception"],
     [msg |-> T_permission_msg, code |-> 403, type |-> "PermissionDenied"],
     [msg |-> T_permission_quota_msg, code |-> 403, type |-> "PermissionDenied"],
     [msg |-> T_recognizer_msg, code |-> 404, type |-> "NotFound"],
     [msg |-> DuplicateText(0, 2), code |-> 409, type |-> "AlreadyExists"]}

\* the texts of the errors of a failed operation, which
\* operation.result(timeout=900) raises, in the model
MonitorErrorTexts ==
    {pre \o DuplicateText(m, n) :
        pre \in {<<>>, T_409}, m \in 0..MaxCount, n \in 0..MaxCount}
    \cup {py_str(n) \o T_skipped_as_exist : n \in 0..MaxCount}
    \cup {py_str(n) \o T_files \o T_skipped_as_exist : n \in 1..2}
    \cup {T_deadline, T_internal}

\* the metadata of a completed operation: None, an object with the
\* ingest_conversations_stats field, or an object (truthy) that carries the
\* counters as its own attributes
Metadatas ==
    {NoMetadata} \cup
    [kind : {"stats", "flat"},
     successful_ingest_count : 0..MaxCounter,
     failed_ingest_count : 0..MaxCounter,
     duplicates_skipped_count : 0..MaxCounter,
     processed_object_count : 0..MaxCounter]

\* is_quota_error of _start_ingestion_with_retry
is_quota_error(e) ==
    \/ e.code = 429
    \/ e.type = "ResourceExhausted"
    \/ Contains(Lower(e.msg), T_concurrent)
    \/ Contains(Lower(e.msg), T_quota)
    \/ Contains(Lower(e.msg), T_rate_limit)

AfterOutcome_WaitAgain == "monitoring"
\* where ingest_conversations_from_gcs is once _monitor_ingestion_operation
\* has returned its dict: `return result`
AfterOutcome == "done"

should_retry_AnyError(e, n) == n < max_retries
\* if is_quota_error and attempt < max_retries
should_retry(e, n) == is_quota_error(e) /\ n < max_retries

\* "permission" in error_msg.lower() or "access" in error_msg.lower()
IsPermissionError(msg) ==
    Contains(Lower(msg), T_permission) \/ Contains(Lower(msg), T_access)

\* "recognizer" in error_msg.lower()
IsRecognizerError(msg) == Contains(Lower(msg), T_recognizer)

\* the dict the except clause of ingest_conversations_from_gcs returns
IngestFailure(msg, uri) ==
    [ResultDict(FALSE, "None", 0, 0, Absent, Absent, FALSE, msg)
        EXCEPT !.bucket_uri = uri]

\* any([successful_count, failed_count, duplicates_count, processed_count])
AnyCounter(md) ==
    \/ md.successful_ingest_count # 0
    \/ md.failed_ingest_count # 0
    \/ md.duplicates_skipped_count # 0
    \/ md.processed_object_count # 0

\* the four counters of the metadata, as the result reports them
CountersResult(md) ==
    ResultDict(TRUE, OperationName, md.successful_ingest_count,
               md.failed_ingest_count, md.duplicates_skipped_count,
               md.processed_object_count, TRUE, None)

MetadataResult_AnyCounterFirst(md) ==
    IF md.kind = "none"
    THEN ResultDict(TRUE, OperationName, 0, 0, Absent, Absent, TRUE, None)
    ELSE IF AnyCounter(md)
    THEN CountersResult(md)
    ELSE [ResultDict(TRUE, OperationName, 1, 0, 0, 1, TRUE, None)
            EXCEPT !.note = TRUE]
\* the try block of _monitor_ingestion_operation after operation.result
\* returned: the result built from operation.metadata
MetadataResult(md) ==
    IF md.kind = "none"
    THEN ResultDict(TRUE, OperationName, 0, 0, Absent, Absent, TRUE, None)
    ELSE IF md.kind = "stats"
    THEN CountersResult(md)
    ELSE IF AnyCounter(md)
    THEN CountersResult(md)
    ELSE [ResultDict(TRUE, OperationName, 1, 0, 0, 1, TRUE, None)
            EXCEPT !.note = TRUE]

\* "already exist" in error_msg and "were skipped" in error_msg
IsDuplicateError(msg) == Contains(msg, T_already_exist) /\ Contains(msg, T_were_skipped)

skipped_count_OneDigit(msg) ==
    LET g == re_search_digits(msg, T_skipped_as_exist)
    IN IF g # <<>> THEN py_int(<<g[Len(g)]>>) ELSE 0
\* int(skipped_match.group(1)) if skipped_match else 0
skipped_count(msg) ==
    LET g == re_search_digits(msg, T_skipped_as_exist)
    IN IF g # <<>> THEN py_int(g) ELSE 0

\* int(failed_match.group(1)) if failed_match else 0
failed_count(msg) ==
    LET g == re_search_digits(msg, T_failed)
    IN IF g # <<>> THEN py_int(g) ELSE 0

MonitorErrorResult_DedupKeepsError(msg) ==
    IF IsDuplicateError(msg)
    THEN [ResultDict(TRUE, OperationName, 0, failed_count(msg), skipped_count(msg),
                     skipped_count(msg) + failed_count(msg), TRUE, msg)
            EXCEPT !.deduplication_message = msg]
    ELSE ResultDict(FALSE, OperationName, 0, 0, Absent, Absent, FALSE, msg)
\* the except clause of _monitor_ingestion_operation
MonitorErrorResult(msg) ==
    IF IsDuplicateError(msg)
    THEN [ResultDict(TRUE, OperationName, 0, failed_count(msg), skipped_count(msg),
                     skipped_count(msg) + failed_count(msg), TRUE, None)
            EXCEPT !.deduplication_message = msg]
    ELSE ResultDict(FALSE, OperationName, 0, 0, Absent, Absent, FALSE, msg)

IngestInit ==
    /\ ipc = "idle"
    /\ bucket_uri = <<>>
    /\ attempt = 0
    /\ submissions = 0
    /\ submit_delays = <<>>
    /\ caught = NoCaught
    /\ operation = NoOperation
    /\ ingest_result = NoResult
    /\ submit_error = NoSubmitError
    /\ result_waits = 0

\* ingest_conversations_from_gcs(bucket_uri) up to the first submission: the
\* URI is validated and normalised and the request is built
ingest_conversations_from_gcs(uri) ==
    /\ ipc = "idle"
    /\ IF ~StartsWith(uri, T_gs)
       THEN /\ bucket_uri' = uri
            /\ caught' = [where |-> "validation", msg |-> T_invalid_uri \o uri]
            /\ ingest_result' = IngestFailure(T_invalid_uri \o uri, uri)
            /\ ipc' = "done"
       ELSE /\ bucket_uri' = IF EndsWith(uri, T_slash) THEN uri ELSE uri \o T_slash
            /\ ipc' = "submitting"
            /\ UNCHANGED <<caught, ingest_result>>
    /\ UNCHANGED <<attempt, submissions, submit_delays, operation, submit_error,
                   result_waits>>
    /\ UNCHANGED notIngest

\* client.ingest_conversations(request) returns the operation
SubmitSucceeds ==
    /\ ipc = "submitting"
    /\ submissions' = submissions + 1
    /\ operation' = [NoOperation EXCEPT !.state = "running"]
    /\ ipc' = "monitoring"
    /\ UNCHANGED <<bucket_uri, attempt, submit_delays, caught, ingest_result,
                   submit_error, result_waits>>
    /\ UNCHANGED notIngest

\* client.ingest_conversations(request) raises e: a quota error with attempts
\* left is followed by a sleep; any other error is re-raised and caught by
\* the except clause of ingest_conversations_from_gcs
SubmitFails(e) ==
    /\ ipc = "submitting"
    /\ submissions' = submissions + 1
    /\ submit_error' = e
    /\ IF should_retry(e, attempt)
       THEN /\ submit_delays' = Append(submit_delays, initial_delay * Pow2(attempt))
            /\ ipc' = "backoff"
            /\ UNCHANGED <<caught, ingest_result>>
       ELSE /\ caught' = [where |-> "submission", msg |-> e.msg]
            /\ ingest_result' = IngestFailure(e.msg, bucket_uri)
            /\ ipc' = "done"
            /\ UNCHANGED submit_delays
    /\ UNCHANGED <<bucket_uri, attempt, operation, result_waits>>
    /\ UNCHANGED notIngest

\* asyncio.sleep(delay) ends; continue with the next attempt
BackoffDone ==
    /\ ipc = "backoff"
    /\ attempt' = attempt + 1
    /\ ipc' = "submitting"
    /\ UNCHANGED <<bucket_uri, submissions, submit_delays, caught, operation,
                   ingest_result, submit_error, result_waits>>
    /\ UNCHANGED notIngest

\* operation.result(timeout=900) returns; the metadata is parsed
OperationCompletes(md) ==
    /\ ipc = "monitoring"
    /\ result_waits' = result_waits + 1
    /\ operation' = [operation EXCEPT !.state = "completed", !.metadata = md]
    /\ ingest_result' = MetadataResult(md)
    /\ ipc' = AfterOutcome
    /\ UNCHANGED <<bucket_uri, attempt, submissions, submit_delays, caught,
                   submit_error>>
    /\ UNCHANGED notIngest

\* operation.result(timeout=900) raises the operation's error, with text msg
OperationFails(msg) ==
    /\ ipc = "monitoring"
    /\ result_waits' = result_waits + 1
    /\ operation' = [operation EXCEPT !.state = "error", !.error = msg,
                                      !.error_type = "GoogleAPICallError"]
    /\ caught' = [where |-> "monitoring", msg |-> msg]
    /\ ingest_result' = MonitorErrorResult(msg)
    /\ ipc' = AfterOutcome
    /\ UNCHANGED <<bucket_uri, attempt, submissions, submit_delays, submit_error>>
    /\ UNCHANGED notIngest

\* operation.result(timeout=900) gives up after 900 seconds: it raises
\* TimeoutError, which the same except clause catches
OperationTimesOut ==
    /\ ipc = "monitoring"
    /\ result_waits' = result_waits + 1
    /\ operation' = [operation EXCEPT !.state = "error", !.error = T_timeout,
                                      !.error_type = "TimeoutError"]
    /\ caught' = [where |-> "monitoring", msg |-> T_timeout]
    /\ ingest_result' = MonitorErrorResult(T_timeout)
    /\ ipc' = AfterOutcome
    /\ UNCHANGED <<bucket_uri, attempt, submissions, submit_delays, submit_error>>
    /\ UNCHANGED notIngest

IngestCall == \E uri \in BucketUris : ingest_conversations_from_gcs(uri)
IngestSubmitFails == \E e \in SubmitErrors : SubmitFails(e)
IngestOperationCompletes == \E md \in Metadatas : OperationCompletes(md)
IngestOperationFails == \E msg \in MonitorErrorTexts : OperationFails(msg)

IngestNext ==
    \/ IngestCall
    \/ SubmitSucceeds
    \/ IngestSubmitFails
    \/ BackoffDone
    \/ IngestOperationCompletes
    \/ IngestOperationFails
    \/ OperationTimesOut

IngestSpecInit ==
    IngestInit /\ SchedQuiet /\ RetryQuiet /\ BatchQuiet /\ PipeQuiet
    /\ MgrQuiet /\ UploadQuiet

IngestSpec == IngestSpecInit /\ [][IngestNext]_vars

(***************************************************************************)
(* AsyncBatch                                                              *)
(***************************************************************************)

\* range(start, stop, step) for a positive step, as the list of its values
RECURSIVE py_range(_, _, _)
py_range(start, stop, step) ==
    IF start >= stop THEN <<>>
    ELSE <<start>> \o py_range(start + step, stop, step)

py_slice_Short(s, a, b) == SubSeq(s, a + 1, Min(b - 1, Len(s)))
\* s[a:b] for 0 <= a <= b: the items at the 0-based positions a .. b-1 that
\* exist
py_slice(s, a, b) == SubSeq(s, a + 1, Min(b, Len(s)))

\* [items[i:i + self.batch_size] for i in range(0, len(items), self.batch_size)]
Batches(its, k) ==
    LET starts == py_range(0, Len(its), k)
    IN [j \in 1..Len(starts) |-> py_slice(its, starts[j], starts[j] + k)]

\* list.extend over a list of lists, in order
RECURSIVE Extend(_)
Extend(lists) ==
    IF lists = <<>> THEN <<>> ELSE Head(lists) \o Extend(Tail(lists))

\* what awaiting processor(item) can produce
ItemOutcomes == {"value", "Exception", "CancelledError"}

BatchIds == 1..Len(batches)
ItemIds == 1..Len(items)

\* the items of batch b
ItemsOf(b) == {batches[b][j] : j \in 1..Len(batches[b])}

\* the items whose processor coroutine has started and not finished
ItemsInFlight == {i \in ItemIds : istate[i] = "running"}

BatchSuccessful_AllOrNothing(b) ==
    IF \E j \in 1..Len(batches[b]) : IsException(item_results[batches[b][j]])
    THEN <<>>
    ELSE batches[b]
BatchSuccessful_Reversed(b) ==
    LET kept == SelectSeq(batches[b], LAMBDA i : ~IsException(item_results[i]))
    IN [j \in 1..Len(kept) |-> kept[Len(kept) + 1 - j]]
\* _process_batch after gather: the results that are not Exception
\* instances, in the order of the batch; an item's result is named by the item
BatchSuccessful(b) ==
    SelectSeq(batches[b], LAMBDA i : ~IsException(item_results[i]))

BatchInit ==
    /\ batch_size \in 1..MaxBatchSize
    /\ max_concurrent_batches \in 1..MaxConcurrent
    /\ batch_semaphore = max_concurrent_batches
    /\ bpc = "idle"
    /\ items = <<>>
    /\ batches = <<>>
    /\ bstate = <<>>
    /\ istate = <<>>
    /\ item_results = <<>>
    /\ batch_results = <<>>
    /\ all_results = <<>>

\* process_items(items, processor) up to the await of run_tasks: the batches
\* are cut and one _process_batch coroutine per batch is handed to run_tasks,
\* which wraps each in _run_with_semaphore and gathers them
process_items(n) ==
    /\ bpc = "idle"
    /\ items' = [i \in 1..n |-> i]
    /\ batches' = Batches(items', batch_size)
    /\ bstate' = [b \in 1..Len(batches') |-> "scheduled"]
    /\ istate' = [i \in 1..n |-> "pending"]
    /\ item_results' = [i \in 1..n |-> "none"]
    /\ batch_results' = [b \in 1..Len(batches') |-> <<>>]
    /\ bpc' = "gather"
    /\ UNCHANGED <<batch_size, max_concurrent_batches, batch_semaphore,
                   all_results>>
    /\ UNCHANGED notBatch

\* the wrapper of batch b enters `async with self.semaphore`; _process_batch
\* creates processor(item) for every item of the batch and gathers them
BatchStart(b) ==
    /\ bpc = "gather"
    /\ bstate[b] = "scheduled"
    /\ ~SemaphoreLocked(batch_semaphore)
    /\ batch_semaphore' = batch_semaphore - 1
    /\ bstate' = [bstate EXCEPT ![b] = "running"]
    /\ istate' = [i \in ItemIds |->
                    IF i \in ItemsOf(b) THEN "running" ELSE istate[i]]
    /\ UNCHANGED <<batch_size, max_concurrent_batches, bpc, items, batches,
                   item_results, batch_results, all_results>>
    /\ UNCHANGED notBatch

\* processor(item) of a running batch finishes with outcome o
ItemFinish(i, o) ==
    /\ bpc = "gather"
    /\ istate[i] = "running"
    /\ istate' = [istate EXCEPT ![i] = "done"]
    /\ item_results' = [item_results EXCEPT ![i] = o]
    /\ UNCHANGED <<batch_size, max_concurrent_batches, batch_semaphore, bpc,
                   items, batches, bstate, batch_results, all_results>>
    /\ UNCHANGED notBatch

\* the gather of batch b is complete: _process_batch filters the results and
\* returns, and the wrapper leaves `async with self.semaphore`
BatchFinish(b) ==
    /\ bpc = "gather"
    /\ bstate[b] = "running"
    /\ \A i \in ItemsOf(b) : istate[i] = "done"
    /\ batch_results' = [batch_results EXCEPT ![b] = BatchSuccessful(b)]
    /\ bstate' = [bstate EXCEPT ![b] = "done"]
    /\ batch_semaphore' = SemaphoreAfterExit(batch_semaphore, "value")
    /\ UNCHANGED <<batch_size, max_concurrent_batches, bpc, items, batches,
                   istate, item_results, all_results>>
    /\ UNCHANGED notBatch

\* run_tasks returns the lists of the batches in batch order (every one is a
\* list, none an Exception) and process_items flattens them
BatchReturn ==
    /\ bpc = "gather"
    /\ \A b \in BatchIds : bstate[b] = "done"
    /\ all_results' = Extend(batch_results)
    /\ bpc' = "returned"
    /\ UNCHANGED <<batch_size, max_concurrent_batches, batch_semaphore, items,
                   batches, bstate, istate, item_results, batch_results>>
    /\ UNCHANGED notBatch

BatchCall == \E n \in 0..MaxItems : process_items(n)
BatchAdmit == \E b \in BatchIds : BatchStart(b)
BatchItemFinish == \E i \in ItemIds, o \in ItemOutcomes : ItemFinish(i, o)
BatchDone == \E b \in BatchIds : BatchFinish(b)

BatchNext ==
    \/ BatchCall
    \/ BatchAdmit
    \/ BatchItemFinish
    \/ BatchDone
    \/ BatchReturn

BatchSpecInit ==
    BatchInit /\ SchedQuiet /\ RetryQuiet /\ IngestQuiet /\ PipeQuiet
    /\ MgrQuiet /\ UploadQuiet

BatchSpec == BatchSpecInit /\ [][BatchNext]_vars

(***************************************************************************)
(* Claims about AsyncBatch.process_items                                   *)
(***************************************************************************)

\* C15: process_items cuts a list of N items with batch size K into exactly
\* ceil(N/K) chunks of at least one and at most K items each, whose
\* concatenation in chunk order is the input list.
C15_ChunksPartitionInput ==
    bpc # "idle" =>
        /\ Len(batches) = (Len(items) + batch_size - 1) \div batch_size
        /\ \A b \in BatchIds : Len(batches[b]) \in 1..batch_size
        /\ Extend(batches) = items

\* four items cut with batch size three: a full chunk and a shorter one
C15_Witness ==
    /\ bpc # "idle"
    /\ Len(items) = 4
    /\ batch_size = 3
    /\ Len(batches) = 2
    /\ Len(batches[2]) = 1

\* C16 as stated: the returned list has N entries and entry i is the result
\* of item i.
C16_OutputAlignedWithInput ==
    bpc = "returned" => all_results = items

\* C16 as amended: the returned list holds the results of the items whose
\* processor did not raise an Exception, in input order, which is what one
\* unchunked run_tasks call over all the items returns for the same
\* outcomes; when no item raised, entry i is the result of item i.
C16_OutputIsOrderedSuccesses ==
    bpc = "returned" =>
        /\ all_results = SuccessfulOf(item_results)
        /\ (\A i \in ItemIds : ~IsException(item_results[i])) =>
                all_results = items

\* four items in two chunks, the second item raised: the results of items
\* 1, 3 and 4 are returned in that order
C16_Witness ==
    /\ bpc = "returned"
    /\ Len(items) = 4
    /\ Len(batches) = 2
    /\ item_results[2] = "Exception"
    /\ all_results = <<1, 3, 4>>

\* C17: the number of items being processed is at most
\* max_concurrent_batches times batch_size, whatever N is.
C17_InFlightBounded ==
    /\ Cardinality(ItemsInFlight) <= max_concurrent_batches * batch_size
    /\ Cardinality({b \in BatchIds : bstate[b] = "running"})
            <= max_concurrent_batches

\* two chunks of one item run while two more items wait: N is above the bound
C17_Witness ==
    /\ Cardinality(ItemsInFlight) = max_concurrent_batches * batch_size
    /\ Len(items) > max_concurrent_batches * batch_size
    /\ \E i \in ItemIds : istate[i] = "pending"

(***************************************************************************)
(* STTInsightsPipeline                                                     *)
(***************************************************************************)

\* the stages of _process_single_file, in the order of the code
StageOrder ==
    <<"gcs_uri", "transcription", "dlp_redaction", "ccai_formatting",
      "save_to_gcs", "ccai_upload">>

\* the stages whose code calls into a collaborator outside the try-free
\* helpers of main.py and so can raise: gcs_handler.get_gcs_uri,
\* stt_processor.transcribe_audio_file and _upload_json_data_sync;
\* _redact_pii_sync, _get_file_metadata_sync and _format_conversation_sync
\* only build values, and _upload_conversation_sync catches every Exception
RaisingStages == {1, 2, 5}

\* str(e) of the exception a stage raised
StageErrors ==
    <<"get_gcs_uri failed", "transcribe_audio_file failed", "None", "None",
      "_upload_json_data_sync failed", "None">>

\* the calls of each stage that can raise; _upload_json_data_sync has two:
\* json.dump inside the `with NamedTemporaryFile` block and
\* gcs_handler.upload_file_sync inside the try/finally after it
RaiseCauses ==
    <<{"get_gcs_uri"}, {"transcribe_audio_file"}, {}, {},
      {"json.dump", "upload_file_sync"}, {}>>

AllRaiseCauses == UNION {RaiseCauses[i] : i \in 1..Len(RaiseCauses)}

\* the temporary file when _upload_json_data_sync is left:
\* NamedTemporaryFile(..., delete=False) creates it, leaving the `with` block
\* only closes it, and os.unlink runs in the finally of the try around
\* upload_file_sync, which a failing json.dump never enters
TempFileAfter(cause) ==
    IF cause = "json.dump" THEN "exists"
    ELSE IF cause \in {"upload_file_sync", "returned"} THEN "deleted"
    ELSE "none"

\* the number of the stage _process_single_file is about to run
NextStage(fr) == Len(fr.steps_completed) + 1

ExceptClause_NoError(fr, stage) == [fr EXCEPT !.raised_at = stage]
\* except Exception as e: file_result['error'] = str(e)
ExceptClause(fr, stage) ==
    [fr EXCEPT !.error = StageErrors[stage], !.raised_at = stage]

AfterStageRaise_Propagates == "raised"
\* where the run is once a stage has raised: the except clause of
\* _process_single_file ends in `return file_result`
AfterStageRaise == "file_done"

ContinueAfter_StopOnFailure(fr) == fr.success
\* for audio_file in audio_files: the loop goes on to the next file whatever
\* the result of the last one
ContinueAfter(fr) == TRUE

\* [r for r in results if r and r.get('success', False)]
SuccessfulResults(rs) == SelectSeq(rs, LAMBDA r : r.success)

\* [r for r in results if r and not r.get('success', False)]
FailedResults(rs) == SelectSeq(rs, LAMBDA r : ~r.success)

\* the dict _process_files_batch returns
BatchResults(rs) ==
    [successful_results |-> SuccessfulResults(rs),
     failed_results |-> FailedResults(rs),
     total_processed |-> Len(rs),
     ingest_result |-> NoIngestResult]

\* the per-file dicts _process_files_direct_ingestion builds
DirectResult(blob, ok, err) ==
    [NewFileResult(blob) EXCEPT
        !.success = ok,
        !.error = err,
        !.upload_result = IF ok THEN "success" ELSE "None"]

\* what ccai_uploader.ingest_conversations_direct(audio_files) does: it
\* returns a dict with success and conversations_ingested, or raises
DirectOutcomes ==
    [kind : {"returned"}, success : {TRUE}, conversations_ingested : 0..MaxFiles,
     error : {"None"}]
    \cup [kind : {"returned", "raised"}, success : {FALSE},
          conversations_ingested : {0}, error : {"quota", "permission"}]

AllSucceeded_IfAllIngested(o) ==
    /\ o.kind = "returned"
    /\ o.success
    /\ o.conversations_ingested >= Len(audio_files)
\* the call returned and `if ingest_result['success']`
AllSucceeded(o) == o.kind = "returned" /\ o.success

BlobNames(rs) == [i \in 1..Len(rs) |-> rs[i].blob_name]

FilesSucceeded_FromStats(res, stats) == stats.files_processed
\* 'files_processed_successfully': len(successful_results)
FilesSucceeded(res, stats) == Len(res.successful_results)

RatePercent_Truncated(num, den) ==
    IF den > 0 THEN (10000 * num) \div den ELSE 0
\* round((num / den * 100) if den > 0 else 0, 2), in hundredths of a percent:
\* the quotient rounded to the nearest hundredth, a tie to the even one
RatePercent(num, den) ==
    IF den > 0
    THEN LET q == (10000 * num) \div den
             r == (10000 * num) % den
         IN IF 2 * r > den \/ (2 * r = den /\ q % 2 = 1) THEN q + 1 ELSE q
    ELSE 0

DurationOf_EndOnly(stats) ==
    IF stats.end_time # NoTime
    THEN [present |-> TRUE, seconds |-> stats.end_time - stats.start_time]
    ELSE NoDuration
\* processing_duration: None unless start_time and end_time are both set
DurationOf(stats) ==
    IF stats.start_time # NoTime /\ stats.end_time # NoTime
    THEN [present |-> TRUE, seconds |-> stats.end_time - stats.start_time]
    ELSE NoDuration

\* successful_uploads
SuccessfulUploads(res) ==
    Len(SelectSeq(res.successful_results,
                  LAMBDA r : r.upload_result = "success"))

StatsAfterSummary_StampsEnd(stats) ==
    [stats EXCEPT !.end_time = IF @ = NoTime THEN 0 ELSE @ + 1]
\* self.processing_stats after _generate_summary: the body only reads it
StatsAfterSummary(stats) == stats

ExitCode_ZeroIfAnySucceeded(sm) ==
    IF sm.files_processed_successfully > 0 THEN 0 ELSE 1
\* return 0 if summary['file_processing']['files_failed'] == 0 else 1
ExitCode(sm) == IF sm.files_failed = 0 THEN 0 ELSE 1

\* the dict _generate_summary builds
SummaryOf(res, m, stats) ==
    [status |-> "completed",
     processing_mode |-> m,
     files_discovered |-> stats.files_discovered,
     files_processed_successfully |-> FilesSucceeded(res, stats),
     files_failed |-> Len(res.failed_results),
     conversations_created |-> stats.conversations_created,
     conversations_uploaded_successfully |-> SuccessfulUploads(res),
     successful_conversations |-> BlobNames(res.successful_results),
     failed_files |-> BlobNames(res.failed_results),
     duration_seconds |-> DurationOf(stats),
     success_rate_percent |->
        RatePercent(Len(res.successful_results),
                    Len(res.successful_results) + Len(res.failed_results)),
     upload_success_rate_percent |->
        RatePercent(SuccessfulUploads(res), Len(res.successful_results)),
     start_time |-> stats.start_time,
     end_time |-> stats.end_time]

PipeInit ==
    /\ ppc = "idle"
    /\ mode = "None"
    /\ audio_files = <<>>
    /\ file_index = 0
    /\ file_result = NewFileResult(0)
    /\ file_results = <<>>
    /\ run_results = NoRunResults
    /\ processing_stats = InitialStats
    /\ summary = NoSummary
    /\ exit_code = Absent

\* run_pipeline up to the processing step: the mode is determined and
\* _discover_audio_files returns n blob names (after file_limit)
run_pipeline(m, n) ==
    /\ ppc = "idle"
    /\ mode' = m
    /\ audio_files' = [i \in 1..n |-> i]
    /\ processing_stats' =
        [processing_stats EXCEPT !.start_time = 0, !.files_discovered = n]
    /\ IF m = "direct"
       THEN /\ ppc' = "ingesting"
            /\ UNCHANGED <<file_index, file_result>>
       ELSE IF n = 0
       THEN /\ ppc' = "aggregating"
            /\ UNCHANGED <<file_index, file_result>>
       ELSE /\ ppc' = "file"
            /\ file_index' = 1
            /\ file_result' = NewFileResult(1)
    /\ UNCHANGED <<file_results, run_results, summary>>
    /\ UNCHANGED exit_code
    /\ UNCHANGED notPipe

\* gcs_handler.list_audio_files_sync() raises: run_pipeline sets end_time,
\* logs and re-raises
DiscoveryRaises(m) ==
    /\ ppc = "idle"
    /\ mode' = m
    /\ ppc' = "raised"
    /\ \E t \in 0..MaxSeconds :
        processing_stats' =
            [processing_stats EXCEPT !.start_time = 0, !.end_time = t]
    /\ UNCHANGED <<audio_files, file_index, file_result, file_results,
                   run_results, summary>>
    /\ UNCHANGED exit_code
    /\ UNCHANGED notPipe

\* one of the first five stages of _process_single_file returns and its name
\* is appended to steps_completed
StageReturns ==
    /\ ppc = "file"
    /\ NextStage(file_result) \in 1..5
    /\ file_result' =
        [file_result EXCEPT
            !.steps_completed = Append(@, StageOrder[NextStage(file_result)]),
            !.temp_file = IF NextStage(file_result) = 5
                          THEN TempFileAfter("returned") ELSE @]
    /\ UNCHANGED <<ppc, mode, audio_files, file_index, file_results,
                   run_results, processing_stats, summary>>
    /\ UNCHANGED exit_code
    /\ UNCHANGED notPipe

\* the call of a stage raises: the except clause records the error and
\* _process_single_file returns file_result
StageRaises(cause) ==
    /\ ppc = "file"
    /\ NextStage(file_result) \in RaisingStages
    /\ cause \in RaiseCauses[NextStage(file_result)]
    /\ file_result' =
        [ExceptClause(file_result, NextStage(file_result))
            EXCEPT !.temp_file = TempFileAfter(cause)]
    /\ ppc' = AfterStageRaise
    /\ UNCHANGED <<mode, audio_files, file_index, file_results, run_results,
                   processing_stats, summary>>
    /\ UNCHANGED exit_code
    /\ UNCHANGED notPipe

SuccessAfterUpload_NeedsUpload(ok) == ok
\* file_result['success'] = True, after the statistics update that looks at
\* upload_result
SuccessAfterUpload(ok) == TRUE

\* stage 6: _upload_conversation_sync returns the uploader's dict, or the
\* failure dict of its own except clause; the statistics are updated and the
\* file is a success either way
UploadStage(ok) ==
    /\ ppc = "file"
    /\ NextStage(file_result) = 6
    /\ file_result' =
        [file_result EXCEPT
            !.upload_result = IF ok THEN "success" ELSE "failure",
            !.steps_completed = Append(@, StageOrder[6]),
            !.success = SuccessAfterUpload(ok)]
    /\ processing_stats' =
        [processing_stats EXCEPT
            !.conversations_uploaded = IF ok THEN @ + 1 ELSE @,
            !.conversations_created = @ + 1]
    /\ ppc' = "file_done"
    /\ UNCHANGED <<mode, audio_files, file_index, file_results, run_results,
                   summary>>
    /\ UNCHANGED exit_code
    /\ UNCHANGED notPipe

\* _process_single_file has returned: results.append(result), and the loop
\* of _process_files_batch takes the next file or ends
NextFile ==
    /\ ppc = "file_done"
    /\ file_results' = Append(file_results, file_result)
    /\ IF file_index < Len(audio_files) /\ ContinueAfter(file_result)
       THEN /\ file_index' = file_index + 1
            /\ file_result' = NewFileResult(audio_files[file_index + 1])
            /\ ppc' = "file"
       ELSE /\ ppc' = "aggregating"
            /\ UNCHANGED <<file_index, file_result>>
    /\ UNCHANGED <<mode, audio_files, run_results, processing_stats, summary>>
    /\ UNCHANGED exit_code
    /\ UNCHANGED notPipe

\* _process_files_batch after the loop: the results are separated and the
\* statistics set
Aggregate ==
    /\ ppc = "aggregating"
    /\ run_results' = BatchResults(file_results)
    /\ processing_stats' =
        [processing_stats EXCEPT
            !.files_processed = Len(SuccessfulResults(file_results)),
            !.files_failed = Len(FailedResults(file_results))]
    /\ ppc' = "summary"
    /\ UNCHANGED <<mode, audio_files, file_index, file_result, file_results,
                   summary>>
    /\ UNCHANGED exit_code
    /\ UNCHANGED notPipe

\* _process_files_direct_ingestion: one call of ingest_conversations_direct
\* decides the result of every file
DirectIngestion(o) ==
    /\ ppc = "ingesting"
    /\ IF AllSucceeded(o)
       THEN /\ processing_stats' =
                [processing_stats EXCEPT
                    !.files_processed = o.conversations_ingested,
                    !.conversations_created = o.conversations_ingested,
                    !.conversations_uploaded = o.conversations_ingested]
            /\ run_results' =
                [successful_results |->
                    [i \in 1..Len(audio_files) |->
                        DirectResult(audio_files[i], TRUE, "None")],
                 failed_results |-> <<>>,
                 total_processed |-> Len(audio_files),
                 ingest_result |-> o]
       ELSE /\ processing_stats' =
                [processing_stats EXCEPT !.files_failed = Len(audio_files)]
            /\ run_results' =
                [successful_results |-> <<>>,
                 failed_results |->
                    [i \in 1..Len(audio_files) |->
                        DirectResult(audio_files[i], FALSE, o.error)],
                 total_processed |-> Len(audio_files),
                 ingest_result |->
                    IF o.kind = "returned" THEN o ELSE NoIngestResult]
    /\ ppc' = "summary"
    /\ UNCHANGED <<mode, audio_files, file_index, file_result, file_results,
                   summary>>
    /\ UNCHANGED exit_code
    /\ UNCHANGED notPipe

\* summary = self._generate_summary(results, mode)
GenerateSummary ==
    /\ ppc = "summary"
    /\ summary' = SummaryOf(run_results, mode, processing_stats)
    /\ processing_stats' = StatsAfterSummary(processing_stats)
    /\ ppc' = "summarised"
    /\ UNCHANGED <<mode, audio_files, file_index, file_result, file_results,
                   run_results>>
    /\ UNCHANGED exit_code
    /\ UNCHANGED notPipe

\* run_pipeline sets end_time to the clock reading t and returns the summary
ReturnSummary(t) ==
    /\ ppc = "summarised"
    /\ t >= processing_stats.start_time
    /\ processing_stats' = [processing_stats EXCEPT !.end_time = t]
    /\ ppc' = "completed"
    /\ UNCHANGED <<mode, audio_files, file_index, file_result, file_results,
                   run_results, summary>>
    /\ UNCHANGED exit_code
    /\ UNCHANGED notPipe

\* main prints the summary run_pipeline returned and returns the exit code
MainReturns ==
    /\ ppc = "completed"
    /\ exit_code' = ExitCode(summary)
    /\ ppc' = "exited"
    /\ UNCHANGED <<mode, audio_files, file_index, file_result, file_results,
                   run_results, processing_stats, summary>>
    /\ UNCHANGED notPipe

\* main's except clause catches what run_pipeline raised and returns 1
MainCatches ==
    /\ ppc = "raised"
    /\ exit_code' = 1
    /\ ppc' = "exited"
    /\ UNCHANGED <<mode, audio_files, file_index, file_result, file_results,
                   run_results, processing_stats, summary>>
    /\ UNCHANGED notPipe

Modes == {"manual", "direct"}

PipeCall == \E m \in Modes, n \in 0..MaxFiles : run_pipeline(m, n)
PipeDiscoveryRaises == \E m \in Modes : DiscoveryRaises(m)
PipeStageRaises == \E cause \in AllRaiseCauses : StageRaises(cause)
PipeUploadStage == \E ok \in BOOLEAN : UploadStage(ok)
PipeDirectIngestion == \E o \in DirectOutcomes : DirectIngestion(o)
PipeReturnSummary == \E t \in 0..MaxSeconds : ReturnSummary(t)

PipeNext ==
    \/ PipeCall
    \/ PipeDiscoveryRaises
    \/ StageReturns
    \/ PipeStageRaises
    \/ PipeUploadStage
    \/ NextFile
    \/ Aggregate
    \/ PipeDirectIngestion
    \/ GenerateSummary
    \/ PipeReturnSummary
    \/ MainReturns
    \/ MainCatches

PipeSpecInit ==
    PipeInit /\ SchedQuiet /\ RetryQuiet /\ IngestQuiet /\ BatchQuiet
    /\ MgrQuiet /\ UploadQuiet

PipeSpec == PipeSpecInit /\ [][PipeNext]_vars

\* run_pipeline is called again on the same pipeline object, at the later
\* clock reading t, after an earlier call returned or raised: the locals are
\* new, self.processing_stats is the object's and keeps what the earlier
\* runs wrote, but for start_time and files_discovered
run_pipeline_again(m, n, t) ==
    /\ ppc \in {"completed", "raised"}
    /\ t > Max(processing_stats.start_time, processing_stats.end_time)
    /\ mode' = m
    /\ audio_files' = [i \in 1..n |-> i]
    /\ processing_stats' =
        [processing_stats EXCEPT !.start_time = t, !.files_discovered = n]
    /\ file_results' = <<>>
    /\ run_results' = NoRunResults
    /\ summary' = NoSummary
    /\ IF m = "direct"
       THEN /\ ppc' = "ingesting"
            /\ file_index' = 0
            /\ file_result' = NewFileResult(0)
       ELSE IF n = 0
       THEN /\ ppc' = "aggregating"
            /\ file_index' = 0
            /\ file_result' = NewFileResult(0)
       ELSE /\ ppc' = "file"
            /\ file_index' = 1
            /\ file_result' = NewFileResult(1)
    /\ UNCHANGED exit_code
    /\ UNCHANGED notPipe

RerunCall == \E m \in Modes, n \in 0..MaxRerunFiles : run_pipeline(m, n)
RerunAgain ==
    \E m \in Modes, n \in 0..MaxRerunFiles, t \in 0..MaxSeconds :
        run_pipeline_again(m, n, t)

\* a pipeline object on which run_pipeline is called several times
RerunNext ==
    \/ RerunCall
    \/ PipeDiscoveryRaises
    \/ StageReturns
    \/ PipeStageRaises
    \/ PipeUploadStage
    \/ NextFile
    \/ Aggregate
    \/ PipeDirectIngestion
    \/ GenerateSummary
    \/ PipeReturnSummary
    \/ RerunAgain

RerunSpec == PipeSpecInit /\ [][RerunNext]_vars

\* results with s successful files, the first u of them uploaded, and f
\* failed files, as the processing step hands them to _generate_summary
SummaryInput(s, f, u) ==
    [successful_results |->
        [i \in 1..s |->
            [NewFileResult(i) EXCEPT
                !.success = TRUE,
                !.steps_completed = StageOrder,
                !.upload_result = IF i <= u THEN "success" ELSE "failure"]],
     failed_results |->
        [j \in 1..f |-> ExceptClause(NewFileResult(s + j), 1)],
     total_processed |-> s + f,
     ingest_result |-> NoIngestResult]

\* the timestamps a statistics dict can hold
Times == {NoTime} \cup 0..MaxSeconds

\* _generate_summary as a function of its inputs: any results and any
\* statistics, with and without timestamps
SummarySpecInit ==
    /\ ppc = "summary"
    /\ mode \in Modes
    /\ \E s, f \in 0..MaxFiles :
        /\ s + f <= MaxFiles
        /\ audio_files = [i \in 1..(s + f) |-> i]
        /\ \E u \in 0..s, t0, t1 \in Times :
            /\ run_results = SummaryInput(s, f, u)
            /\ processing_stats =
                [files_discovered |-> s + f,
                 files_processed |-> s,
                 files_failed |-> f,
                 conversations_created |-> s,
                 conversations_uploaded |-> u,
                 start_time |-> t0,
                 end_time |-> t1]
    /\ file_index = 0
    /\ file_result = NewFileResult(0)
    /\ file_results = <<>>
    /\ summary = NoSummary
    /\ exit_code = Absent
    /\ SchedQuiet /\ RetryQuiet /\ IngestQuiet /\ BatchQuiet /\ MgrQuiet
    /\ UploadQuiet

SummaryNext == GenerateSummary

SummarySpec == SummarySpecInit /\ [][SummaryNext]_vars

(***************************************************************************)
(* Claims about the pipeline                                               *)
(***************************************************************************)

\* C18: in every file result, steps_completed is a prefix of the stage
\* order; a file whose stage raised has success=False, an error that is not
\* None and steps_completed listing exactly the stages before the failing one.
C18_StepsArePrefix ==
    \A r \in {file_result} \cup {file_results[i] : i \in 1..Len(file_results)} :
        /\ Len(r.steps_completed) <= Len(StageOrder)
        /\ r.steps_completed = SubSeq(StageOrder, 1, Len(r.steps_completed))
        /\ r.raised_at # 0 =>
                /\ ~r.success
                /\ r.error # "None"
                /\ r.steps_completed = SubSeq(StageOrder, 1, r.raised_at - 1)

\* a file whose save_to_gcs stage raised after four completed stages
C18_Witness ==
    /\ ppc = "file_done"
    /\ file_result.raised_at = 5
    /\ Len(file_result.steps_completed) = 4
    /\ ~file_result.success

\* C21: once _upload_json_data_sync has returned or raised for a file, the
\* temporary file that call created no longer exists.
C21_TempFileDeleted ==
    \A r \in {file_result} \cup {file_results[i] : i \in 1..Len(file_results)} :
        (Len(r.steps_completed) >= 5 \/ r.raised_at = 5) =>
            r.temp_file # "exists"

\* C19: in manual mode, once the loop over N files has ended there are N
\* per-file results, one per file in order, exactly as many with
\* success=False as files whose stage raised, and files_failed is that
\* number; with N = 5 and one file raising at transcription, there are 5
\* results, 1 failed whose steps_completed is ["gcs_uri"], and
\* files_failed = 1.
C19_FailuresIsolatedPerFile ==
    (mode = "manual" /\ ppc \in {"summary", "completed"}) =>
        LET F == {i \in 1..Len(file_results) : file_results[i].raised_at # 0}
            failed == {i \in 1..Len(file_results) : ~file_results[i].success}
        IN /\ Len(file_results) = Len(audio_files)
           /\ \A i \in 1..Len(file_results) :
                file_results[i].blob_name = audio_files[i]
           /\ failed = F
           /\ Len(run_results.failed_results) = Cardinality(F)
           /\ processing_stats.files_failed = Cardinality(F)
           /\ run_results.total_processed = Len(audio_files)
           /\ (/\ Len(audio_files) = 5
               /\ \E f \in 1..5 : F = {f} /\ file_results[f].raised_at = 2)
                => /\ Len(file_results) = 5
                   /\ Cardinality(failed) = 1
                   /\ \A f \in failed :
                        file_results[f].steps_completed = <<"gcs_uri">>
                   /\ processing_stats.files_failed = 1

\* five files, the second raised at transcription and the three after it
\* were processed to the end
C19_Witness ==
    /\ mode = "manual"
    /\ ppc = "completed"
    /\ Len(file_results) = 5
    /\ file_results[2].raised_at = 2
    /\ \A i \in {1, 3, 4, 5} : file_results[i].success
    /\ processing_stats.files_failed = 1

\* C20: in the summary of a completed run, in either mode, the files
\* reported successful plus the files reported failed are the files
\* discovered, each file listed exactly once.
C20_SummaryAccountsForEveryFile ==
    ppc = "completed" =>
        LET listed == summary.successful_conversations \o summary.failed_files
        IN /\ summary.files_discovered = Len(audio_files)
           /\ summary.files_processed_successfully + summary.files_failed
                = summary.files_discovered
           /\ Len(summary.successful_conversations)
                = summary.files_processed_successfully
           /\ Len(summary.failed_files) = summary.files_failed
           /\ \A i \in 1..Len(audio_files) :
                Cardinality({j \in 1..Len(listed) : listed[j] = audio_files[i]})
                    = 1

\* a direct run over three files whose ingestion reported another number of
\* conversations than files
C20_Witness ==
    /\ ppc = "completed"
    /\ mode = "direct"
    /\ Len(audio_files) = 3
    /\ processing_stats.files_processed = 2
    /\ summary.files_processed_successfully = 3

(***************************************************************************)
(* Claims about the bulk ingestion request                                 *)
(***************************************************************************)

\* C8: when waiting on the operation fails with the error text
\* "<M> failed and <N> were skipped as they already exist", the outcome is
\* success=True with duplicate_conversations = N, failed_conversations = M,
\* conversations_ingested = 0 and total_processed = N + M (in particular
\* M = 0, N = 2 gives 2 duplicates and 0 failed).
C8_DuplicateErrorIsSuccess ==
    (ipc = "done" /\ operation.state = "error") =>
        \A m, n \in 0..MaxCount :
            operation.error = DuplicateText(m, n) =>
                /\ ingest_result.returned
                /\ ingest_result.success
                /\ ingest_result.duplicate_conversations = n
                /\ ingest_result.failed_conversations = m
                /\ ingest_result.conversations_ingested = 0
                /\ ingest_result.total_processed = n + m

\* the operation failed with "0 failed and 2 were skipped as they already
\* exist" and the call returned
C8_Witness ==
    /\ ipc = "done"
    /\ operation.state = "error"
    /\ operation.error = DuplicateText(0, 2)
    /\ ingest_result.duplicate_conversations = 2

\* C9: an error raised on submission or while waiting for the operation whose
\* text carries "<N> were skipped as they already exist" always gives a
\* result with success=True.
C9_DuplicateNeverFailure ==
    (/\ ipc = "done"
     /\ caught.where \in {"submission", "monitoring"}
     /\ re_search_digits(caught.msg, T_skipped_as_exist) # <<>>)
        => ingest_result.success

\* C10: when the operation completes with metadata carrying the four
\* counters, the outcome reports exactly those values as ingested, failed,
\* duplicate and total processed counts, for every combination of values.
C10_CountersReported ==
    (/\ ipc = "done"
     /\ operation.state = "completed"
     /\ operation.metadata.kind \in {"stats", "flat"})
        => /\ ingest_result.success
           /\ ingest_result.conversations_ingested
                = operation.metadata.successful_ingest_count
           /\ ingest_result.failed_conversations
                = operation.metadata.failed_ingest_count
           /\ ingest_result.duplicate_conversations
                = operation.metadata.duplicates_skipped_count
           /\ ingest_result.total_processed
                = operation.metadata.processed_object_count

\* C11: a bulk ingestion request is submitted, then waited on, then has
\* exactly one outcome: the monitor is entered only after a submission
\* returned an operation, the operation is waited on at most once and has an
\* outcome exactly when that wait is over, and once the outcome is returned
\* the operation is not waited on again and the outcome never changes.
C11_SubmittedPollingOutcome ==
    /\ [](/\ ipc = "monitoring" =>
                (/\ operation.state = "running"
                 /\ submissions >= 1
                 /\ result_waits = 0
                 /\ ~ingest_result.returned)
          /\ result_waits <= 1
          /\ operation.state = "none" => result_waits = 0
          /\ operation.state \in {"completed", "error"} =>
                (ipc = "done" /\ result_waits = 1 /\ ingest_result.returned))
    /\ [][ingest_result.returned =>
            UNCHANGED <<ingest_result, operation, result_waits, submissions>>]_vars

\* a request whose second submission returned the operation, which then
\* completed
C11_Witness ==
    /\ ipc = "done"
    /\ submissions = 2
    /\ operation.state = "completed"
    /\ result_waits = 1
    /\ ingest_result.success

\* C12: when operation.result(timeout=900) times out, the dict the monitor
\* returns differs, in something other than the text of the error, from
\* every dict it returns for an operation that failed: the caller can tell a
\* timeout from a failure.
C12_TimedOutDistinct ==
    (ipc = "done" /\ operation.error_type = "TimeoutError") =>
        \A msg \in MonitorErrorTexts :
            ~IsDuplicateError(msg) =>
                [ingest_result EXCEPT !.error = None]
                    # [MonitorErrorResult(msg) EXCEPT !.error = None]

C14_PermissionNeverRetried ==
    (/\ submit_error # NoSubmitError
     /\ IsPermissionError(submit_error.msg) \/ IsRecognizerError(submit_error.msg))
        => /\ ipc = "done"
           /\ submissions = 1
           /\ ingest_result.returned
           /\ ~ingest_result.success
           /\ ingest_result.error = submit_error.msg

\* C22: the file success rate of a summary is 100 * successes / (successes
\* + failures), to the nearest hundredth of a percent, and 0 when there are
\* no results; 3 successes and 1 failure give 75.0.  The upload success rate
\* is 100 * uploaded / successes in the same way, and 0 when no file
\* succeeded.  (Rates are in hundredths of a percent.)
C22_RatesGuarded ==
    ppc = "summarised" =>
        LET s == Len(run_results.successful_results)
            t == s + Len(run_results.failed_results)
            u == SuccessfulUploads(run_results)
            rate == summary.success_rate_percent
            urate == summary.upload_success_rate_percent
            Dist(a, b) == IF a >= b THEN a - b ELSE b - a
        IN /\ t = 0 => rate = 0
           /\ t > 0 => 2 * Dist(rate * t, 10000 * s) <= t
           /\ (s = 3 /\ t = 4) => rate = 7500
           /\ s = 0 => urate = 0
           /\ s > 0 => 2 * Dist(urate * s, 10000 * u) <= s

\* two successes and one failure: 66.67; one of the two uploaded: 50.0
C22_Witness ==
    /\ ppc = "summarised"
    /\ Len(run_results.successful_results) = 2
    /\ Len(run_results.failed_results) = 1
    /\ SuccessfulUploads(run_results) = 1
    /\ summary.success_rate_percent = 6667
    /\ summary.upload_success_rate_percent = 5000

C29_DurationWhenBothPresent ==
    ppc = "summarised" =>
        IF processing_stats.start_time # NoTime /\ processing_stats.end_time # NoTime
        THEN /\ summary.duration_seconds.present
             /\ summary.duration_seconds.seconds
                    = processing_stats.end_time - processing_stats.start_time
        ELSE summary.duration_seconds = NoDuration

\* statistics with an end_time but no start_time: the duration is None
C29_Witness ==
    /\ ppc = "summarised"
    /\ processing_stats.start_time = NoTime
    /\ processing_stats.end_time = 2
    /\ summary.duration_seconds = NoDuration

\* C24: main returns 0 exactly when run_pipeline returned a summary with no
\* failed file, and 1 when a file failed or run_pipeline raised.
C24_ExitCode ==
    ppc = "exited" =>
        /\ exit_code \in {0, 1}
        /\ exit_code = 0 <=>
                (summary.status = "completed"
                 /\ run_results.failed_results = <<>>)

\* a manual run in which one of two files failed exits with 1
C24_Witness ==
    /\ ppc = "exited"
    /\ mode = "manual"
    /\ Len(run_results.successful_results) = 1
    /\ Len(run_results.failed_results) = 1
    /\ exit_code = 1

\* an upper bound on the steps a run still has to take
StepsLeft ==
    CASE ppc = "idle" -> 7 * MaxFiles + 6
      [] ppc = "file" ->
            7 * (Len(audio_files) - file_index)
            + (7 - Len(file_result.steps_completed)) + 4
      [] ppc = "file_done" -> 7 * (Len(audio_files) - file_index) + 5
      [] ppc \in {"aggregating", "ingesting"} -> 4
      [] ppc = "summary" -> 3
      [] ppc = "summarised" -> 2
      [] ppc \in {"completed", "raised"} -> 1
      [] OTHER -> 0

\* C25: run_pipeline raises only from its start (mode resolution or
\* discovery).  Once discovery has returned, whatever files fail and
\* whatever the bulk ingestion does, the run is never stuck, every step
\* brings it closer to its end (the number of steps left goes down), and
\* it ends by returning a summary.
C25_SummaryAfterDiscovery ==
    /\ [][ppc' = "raised" => ppc = "idle"]_vars
    /\ [][StepsLeft' < StepsLeft]_vars
    /\ [](/\ ppc \notin {"idle", "exited"} => ENABLED PipeNext
          /\ ppc = "completed" => summary.status = "completed"
          /\ ppc = "exited" =>
                (summary.status = "completed" \/ audio_files = <<>>))

\* a direct run whose bulk ingestion raised, and a manual run in which every
\* file failed, both returned a summary
C25_Witness ==
    /\ ppc = "completed"
    /\ summary.status = "completed"
    /\ Len(audio_files) = 3
    /\ summary.files_failed = 3

\* C26: what run_tasks returns tells the caller which units failed: no other
\* assignment of outcomes to the same tasks, with other failed units, gives
\* the same return value.
C26_ReturnTellsFailures ==
    spc = "returned" =>
        \A rs \in [1..Len(results) -> TaskOutcomes] :
            ReturnedValues(rs) = ReturnedValues(results) =>
                FailedOf(rs) = FailedOf(results)

\* C27: when the overall timeout of run_with_timeout expires, every unit
\* that was abandoned is reported to the caller as failed.
C27_AbandonedReportedFailed ==
    spc = "timed_out" =>
        \A t \in Tasks : tstate[t] = "cancelled" => InSeq(t, failed_tasks)

C30_WaitsAtMostSixtySeconds ==
    /\ \A n \in 1..Len(waits) : waits[n] <= WaitMax * TicksPerSecond
    /\ \A n \in 1..Len(submit_delays) : submit_delays[n] <= WaitMax

\* C31: the list run_tasks returns holds the results of the successful
\* tasks in the order in which the tasks were passed in: their indices
\* increase along the list and each entry is the outcome of its task,
\* whatever the order in which the tasks ended.
C31_ReturnInInputOrder ==
    spc = "returned" =>
        /\ \A j, k \in 1..Len(successful_results) :
              j < k => successful_results[j] < successful_results[k]
        /\ \A j \in 1..Len(successful_results) :
              /\ successful_results[j] \in Tasks
              /\ ~IsException(results[successful_results[j]])
        /\ \A t \in Tasks :
              ~IsException(results[t]) => InSeq(t, successful_results)

\* three successful tasks ended in the reverse of their input order and
\* run_tasks returned
C31_Witness ==
    /\ spc = "returned"
    /\ Len(successful_results) = 3
    /\ done_order = <<3, 2, 1>>

\* C32: on a manager shared by several run_tasks calls every permit taken
\* is given back when its task ends, by success or by exception: the free
\* permits and the tasks inside `async with` always add up to
\* max_concurrent_tasks, so at most that many tasks of all the calls
\* together are in flight, and all the permits are free whenever no call is
\* in progress.
C32_PermitsReleased ==
    /\ mgr_semaphore + Cardinality(AllInFlight) = mgr_max_concurrent_tasks
    /\ Cardinality(AllInFlight) <= mgr_max_concurrent_tasks
    /\ (\A c \in Callers : call_pc[c] # "gather") =>
            mgr_semaphore = mgr_max_concurrent_tasks

\* both callers are inside run_tasks, the single permit is held by a task
\* of one of them, which has already ended another task, while a task of
\* the other waits
C32_Witness ==
    /\ mgr_max_concurrent_tasks = 1
    /\ call_pc["a"] = "gather"
    /\ call_pc["b"] = "gather"
    /\ \E t \in CallTasks("a") : call_tstate["a"][t] = "running"
    /\ \E t \in CallTasks("b") : call_tstate["b"][t] = "waiting"
    /\ \E t \in CallTasks("a") : call_tstate["a"][t] = "done"

\* C33: when process_items returns, the result of an item is absent from
\* the output exactly when its own processor raised an Exception: every
\* other item, of the same chunk or of another, contributes its result
\* once, and the output has N minus the number of failing items entries.
C33_OnlyFailingItemsAbsent ==
    bpc = "returned" =>
        /\ \A i \in ItemIds :
              CountIn(i, all_results)
                = IF item_results[i] = "Exception" THEN 0 ELSE 1
        /\ Len(all_results)
              = Len(items)
                - Cardinality({i \in ItemIds : item_results[i] = "Exception"})

\* four items in chunks of three and one: the first item raised, and the
\* two other items of its chunk and the item of the other chunk are returned
C33_Witness ==
    /\ bpc = "returned"
    /\ batch_size = 3
    /\ Len(items) = 4
    /\ item_results = <<"Exception", "value", "value", "value">>
    /\ all_results = <<2, 3, 4>>

C35_ResultFieldsAgree ==
    ingest_result.returned =>
        /\ ingest_result.success = ingest_result.lro_completed
        /\ ingest_result.success = (ingest_result.error = None)
        /\ ~ingest_result.success => ingest_result.conversations_ingested = 0

\* operation.result raised the duplicate-skip error: the except clause of
\* the monitor returned a success, with lro_completed and without error
C35_Witness ==
    /\ ipc = "done"
    /\ caught.where = "monitoring"
    /\ ingest_result.deduplication_message # None
    /\ ingest_result.success
    /\ ingest_result.lro_completed
    /\ ingest_result.error = None

\* C36: ingest_conversations_from_gcs ends by returning a dict, also when
\* validation, submission or monitoring raised: an error caught after a
\* submission or in the monitor is in the returned dict unless it is the
\* duplicate-skip error of the monitor, and a bucket_uri without the
\* "gs://" prefix gives success false without any submission.
C36_AlwaysReturnsResult ==
    /\ ipc = "done" <=> ingest_result.returned
    /\ caught.where # "none" =>
            /\ ipc = "done"
            /\ ingest_result.success \/ ingest_result.error = caught.msg
            /\ ingest_result.success =>
                  (caught.where = "monitoring" /\ IsDuplicateError(caught.msg))
    /\ (ipc # "idle" /\ (Len(bucket_uri) < 5 \/ SubSeq(bucket_uri, 1, 5) # T_gs)) =>
            /\ ipc = "done"
            /\ caught.where = "validation"
            /\ ~ingest_result.success
            /\ submissions = 0
            /\ operation.state = "none"

\* the call was made with an s3:// URI and has returned its failure
C36_Witness ==
    /\ ipc = "done"
    /\ bucket_uri = T_bucket_bad
    /\ caught.where = "validation"
    /\ ingest_result.returned
    /\ ~ingest_result.success
    /\ submissions = 0

C38_SuccessDespiteUploadFailure ==
    mode = "manual" =>
        /\ \A i \in 1..Len(file_results) :
              /\ file_results[i].success <=> file_results[i].raised_at = 0
              /\ file_results[i].success <=>
                    Len(file_results[i].steps_completed) >= 5
              /\ file_results[i].success =>
                    /\ file_results[i].steps_completed = StageOrder
                    /\ file_results[i].upload_result \in {"success", "failure"}
        /\ ppc \in {"aggregating", "summary", "summarised", "completed"} =>
              LET good == {i \in 1..Len(file_results) : file_results[i].success}
                  sent == {i \in good : file_results[i].upload_result = "success"}
              IN /\ processing_stats.conversations_created = Cardinality(good)
                 /\ processing_stats.conversations_uploaded = Cardinality(sent)
                 /\ processing_stats.conversations_uploaded
                      <= processing_stats.conversations_created
                 /\ processing_stats.conversations_created
                      <= processing_stats.files_discovered

\* a completed manual run over three files: one raised, one succeeded with
\* its upload, one succeeded although its upload failed
C38_Witness ==
    /\ mode = "manual"
    /\ ppc = "completed"
    /\ Len(file_results) = 3
    /\ file_results[1].raised_at # 0
    /\ file_results[2].success /\ file_results[2].upload_result = "success"
    /\ file_results[3].success /\ file_results[3].upload_result = "failure"
    /\ processing_stats.conversations_created = 2
    /\ processing_stats.conversations_uploaded = 1

\* C39: every summary run_pipeline returns, on a pipeline object that is
\* run any number of times, has a duration that is None or not negative,
\* the start_time of the run that returned it, and an end_time that, when
\* there is one, was stamped during that run, so not before its start.
C39_SummaryTimesOfOwnRun ==
    summary.status = "completed" =>
        /\ summary.duration_seconds.present =>
                summary.duration_seconds.seconds >= 0
        /\ summary.start_time = processing_stats.start_time
        /\ summary.end_time # NoTime => summary.end_time >= summary.start_time

\* C40: an operation that completes with metadata whose four counters are
\* all zero, in the stats field or as flat attributes, is reported with
\* conversations_ingested = 0 and total_processed = 0, and the outcome of a
\* completed operation never reports more ingested conversations than its
\* metadata states.
C40_ZeroCountersReportedZero ==
    (/\ ipc = "done"
     /\ operation.state = "completed"
     /\ operation.metadata.kind \in {"stats", "flat"})
        => /\ ingest_result.conversations_ingested
                <= operation.metadata.successful_ingest_count
           /\ ~AnyCounter(operation.metadata) =>
                /\ ingest_result.conversations_ingested = 0
                /\ ingest_result.total_processed = 0

====
